---- MODULE Spec2Model ----
(***************************************************************************)
(* ORGanetto: the org cache (fetchAndCacheOrgs), the webview message       *)
(* dispatcher (refresh, openOrg, logoutOrg), the addOrg command and the    *)
(* panel life cycle of src/src/extension.ts, lines 192-1113.               *)
(*                                                                         *)
(* Every handler is an async function: the host starts a handler for each  *)
(* message and does not wait for it, so handlers interleave at their       *)
(* awaits.  A handler in flight is a record in the bag `handlers`; each    *)
(* action below is the code between two awaits of one handler.             *)
(***************************************************************************)
EXTENDS Integers, Sequences, FiniteSets, Bags, TLC

VARIABLES
    orgsCache,     \* globalState "salesforceOrgs": NoCache (undefined) or Cached(list)
    lastOpened,    \* globalState "orgLastOpenedTimes": id -> stamp, 0 = no entry
    started,       \* how many messages and addOrg commands have been handled so far
    currentPanel,  \* the closure variable currentPanel is defined
    handlersReady, \* onDidReceiveMessage is registered on the current panel
    view,          \* what the webview of the current panel shows
    handlers,      \* bag of the handlers in flight
    out            \* what the last step did that is visible outside

vars == <<orgsCache, lastOpened, started, currentPanel, handlersReady, view, handlers, out>>

-----------------------------------------------------------------------------
(* Bounds *)

\* the messages and addOrg commands handled in one session
MaxStarted == 2

-----------------------------------------------------------------------------
(* Data *)

\* globalState holds no value under "salesforceOrgs": get() returns undefined
NoCache == [defined |-> FALSE, list |-> <<>>]

\* globalState holds the array `list` under "salesforceOrgs"
Cached(list) == [defined |-> TRUE, list |-> list]

\* strings are sequences of characters where the code looks inside them
UrlProd == <<"x", ".", "m", "y", ".", "c">>

UrlSandbox == <<"x", ".", "S", "a", "n", "d", "b", "o", "x", ".", "c">>

NoUrl == <<>>

Needle == <<".", "s", "a", "n", "d", "b", "o", "x", ".">>

Ids == {"a", "B"}

NoTimes == [i \in Ids |-> 0]

\* String.prototype.toLowerCase on one character
LowerChar(c) ==
    CASE c = "S" -> "s" [] c = "B" -> "b" [] c = "A" -> "a" [] c = "N" -> "n"
      [] c = "D" -> "d" [] c = "O" -> "o" [] c = "X" -> "x" [] OTHER -> c

ToLowerCase(s) == [i \in 1..Len(s) |-> LowerChar(s[i])]

\* toLowerCase on the identifiers, which the model keeps as whole strings
LowerId(id) == CASE id = "B" -> "b" [] id = "A" -> "a" [] OTHER -> id

\* String.prototype.includes
Includes(s, sub) ==
    \E k \in 0..(Len(s) - Len(sub)) : \A j \in 1..Len(sub) : s[k + j] = sub[j]

ProdOrSandboxMutA(org) ==
    IF org.instanceUrl # NoUrl
    THEN IF Includes(org.instanceUrl, Needle) THEN "Sandbox" ELSE "Production"
    ELSE "Unknown"

\* setProdOrSandbox: the value it assigns to org.ProdOrSandbox
ProdOrSandbox(org) ==
    IF org.instanceUrl # NoUrl
    THEN IF Includes(ToLowerCase(org.instanceUrl), Needle) THEN "Sandbox" ELSE "Production"
    ELSE "Unknown"

\* an org record as the CLI prints it; "" is an absent alias
Raw(al, user, url, status) ==
    [alias |-> al, username |-> user, instanceUrl |-> url, connectedStatus |-> status]

\* setProdOrSandbox(org): the record with the property set
Classified(org) ==
    [alias |-> org.alias, username |-> org.username, instanceUrl |-> org.instanceUrl,
     connectedStatus |-> org.connectedStatus, ProdOrSandbox |-> ProdOrSandbox(org)]

\* org.alias || org.username
OrgKey(org) == IF org.alias # "" THEN org.alias ELSE org.username

rA == Raw("a", "ua", UrlProd, "Connected")

rA2 == Raw("a", "ua", NoUrl, "Expired")

rB == Raw("", "B", UrlSandbox, "Connected")

-----------------------------------------------------------------------------
(* What the external CLI can print *)

\* stdout of "sf org list --all --json" after JSON.parse: result.result is an
\* array (isArray), or an object whose fields nonScratchOrgs and scratchOrgs are
\* arrays or absent, or result.result is missing altogether
ListOutput(has, arr, items, hasNon, non, hasScratch, scratch) ==
    [hasResult |-> has, isArray |-> arr, items |-> items,
     hasNonScratch |-> hasNon, nonScratchOrgs |-> non,
     hasScratch |-> hasScratch, scratchOrgs |-> scratch]

ListOutputs ==
    { ListOutput(TRUE, TRUE, <<rA, rB>>, FALSE, <<>>, FALSE, <<>>),
      ListOutput(TRUE, TRUE, <<>>, FALSE, <<>>, FALSE, <<>>),
      ListOutput(TRUE, FALSE, <<>>, TRUE, <<rA2>>, TRUE, <<rB>>),
      ListOutput(FALSE, FALSE, <<>>, FALSE, <<>>, FALSE, <<>>) }

\* how a subprocess whose output is parsed can fail: non-zero exit (execPromise
\* rejects) or output JSON.parse throws on
ExecFailures == {"exit", "unparsable"}

\* result of "sf org display --target-org <alias> --json" for an alias just
\* logged in: the record of the org, under the alias the CLI reports for it
\* (the one asked for, or another the org is known by)
DisplayOutputs(al) == { Raw(x, "ub", UrlSandbox, "Unknown") : x \in Ids }

-----------------------------------------------------------------------------
(* fetchAndCacheOrgs: the list it builds from the parsed output *)

FlattenMutA(o) ==
    IF o.hasResult
    THEN LET o1 == IF o.hasScratch THEN o.scratchOrgs ELSE <<>>
             o2 == IF o.hasNonScratch THEN o1 \o o.nonScratchOrgs ELSE o1
         IN  IF o.isArray THEN o.items ELSE o2
    ELSE <<>>

Flatten(o) ==
    IF o.hasResult
    THEN LET o1 == IF o.hasNonScratch THEN o.nonScratchOrgs ELSE <<>>
             o2 == IF o.hasScratch THEN o1 \o o.scratchOrgs ELSE o1
         IN  IF o.isArray THEN o.items ELSE o2
    ELSE <<>>

\* orgs.forEach((org) => setProdOrSandbox(org))
ClassifyAll(list) == [i \in 1..Len(list) |-> Classified(list[i])]

\* the list fetchAndCacheOrgs caches and returns for a parsed output
Fetched(o) == ClassifyAll(Flatten(o))

CacheHitMutA(forceRefresh) == ~forceRefresh /\ orgsCache.defined /\ Len(orgsCache.list) > 0

CacheHitMutB(forceRefresh) == orgsCache.defined

\* fetchAndCacheOrgs returns the cached list without calling the CLI
CacheHit(forceRefresh) == ~forceRefresh /\ orgsCache.defined

\* globalState.get("salesforceOrgs") || []
CachedOrEmpty == IF orgsCache.defined THEN orgsCache.list ELSE <<>>

RemoveOrgMutA(list, id) == SelectSeq(list, LAMBDA org : org.alias # id)

\* cachedOrgs.filter((org) => (org.alias || org.username) !== id)
RemoveOrg(list, id) == SelectSeq(list, LAMBDA org : OrgKey(org) # id)

UpsertMutA(list, id, newOrg) == <<newOrg>> \o list

\* addOrg: filter out the identifier, then unshift the new record
Upsert(list, id, newOrg) == <<newOrg>> \o RemoveOrg(list, id)

\* newOrg.connectedStatus = "Connected"; setProdOrSandbox(newOrg)
NewOrg(rec) == Classified([rec EXCEPT !.connectedStatus = "Connected"])

StampMutA(times, id, now) == [i \in DOMAIN times |-> IF i = id THEN now ELSE 0]

\* lastOpenedTimes[id] = new Date().toISOString()
Stamp(times, id, now) == [times EXCEPT ![id] = now]

UnstampMutA(times, id) == [i \in DOMAIN times |-> 0]

\* delete lastOpenedTimes[id]
Unstamp(times, id) == [times EXCEPT ![id] = 0]

-----------------------------------------------------------------------------
(* getWebviewContent and the webview's own script *)

\* let currentSort = { column: null, ascending: true }
NoSort == [column |-> "null", ascending |-> TRUE]

NoView == [kind |-> "none", rows |-> <<>>, sort |-> NoSort]

\* one <tr class="org-row">: the identifier its buttons post, data-alias,
\* data-status, data-lastused (0 is the empty attribute)
Row(org, times) ==
    [key |-> OrgKey(org), dataAlias |-> LowerId(OrgKey(org)),
     dataStatus |-> org.connectedStatus, lastused |-> times[OrgKey(org)]]

\* getWebviewContent(orgs, lastOpenedTimes, isRefreshing, error)
Render(orgs, times, isRefreshing, error) ==
    IF Len(orgs) = 0 /\ ~error
    THEN [kind |-> IF isRefreshing THEN "refreshing" ELSE "loading", rows |-> <<>>,
          sort |-> NoSort]
    ELSE IF error
         THEN [kind |-> "error", rows |-> <<>>, sort |-> NoSort]
         ELSE [kind |-> "table", rows |-> [i \in 1..Len(orgs) |-> Row(orgs[i], times)],
               sort |-> NoSort]

\* the webview's listener for { command: "removeOrg", alias }
RemoveRow(v, al) ==
    [v EXCEPT !.rows = SelectSeq(v.rows, LAMBDA r : r.dataAlias # LowerId(al))]

\* the identifiers the rows on screen can post
RowKeys == { view.rows[i].key : i \in 1..Len(view.rows) }

-----------------------------------------------------------------------------
(* Handlers in flight *)

\* op: which handler; pc: the await it is suspended at; alias: message.alias or
\* the alias typed into the wizard; alive: the panel its closure captured is not
\* disposed; orgs, times: its local copies of the list and of the map; calls:
\* how many subprocesses and tasks it has started; exit: the exit code of its
\* login task
CliPcs == {"list", "open", "logout", "authUrl", "config", "reauth", "login", "display", "version"}

Handler(op, pc, al, alive, orgs, times) ==
    [op |-> op, pc |-> pc, alias |-> al, alive |-> alive, orgs |-> orgs, times |-> times,
     calls |-> IF pc \in CliPcs THEN 1 ELSE 0, exit |-> 0]

InFlight == BagToSet(handlers)

Room == started < MaxStarted

Start(h) == handlers (+) SetToBag({h})

Finish(h) == handlers (-) SetToBag({h})

\* h goes on as h2; a new await of a subprocess counts
Continue(h, h2) ==
    (handlers (-) SetToBag({h}))
      (+) SetToBag({[h2 EXCEPT !.calls = IF h2.pc \in CliPcs /\ h2.pc # h.pc
                                         THEN h.calls + 1 ELSE h.calls]})

NoOutput == ListOutput(FALSE, FALSE, <<>>, FALSE, <<>>, FALSE, <<>>)

\* result of "sf org display --target-org <alias> --verbose --json" as
\* getAuthUrl reads it: result?.result?.sfdxAuthUrl
AuthOutput(has, hasField, url) == [hasResult |-> has, hasField |-> hasField, sfdxAuthUrl |-> url]

NoAuth == AuthOutput(FALSE, FALSE, "")

\* a version output checkSfCliVersion reads: the text "sf --version" printed,
\* whether a three-part version stands in it after "@salesforce/cli/", and
\* that version
VersionOutput(text, has, ver) == [text |-> text, hasVersion |-> has, version |-> ver]

NoVersion == VersionOutput(<<>>, FALSE, <<>>)

\* op: the handler the step belongs to; act: the step; alias: the identifier it
\* is about; cli: the subprocess it started; notice: the message box it showed;
\* post: the alias of the removeOrg message it posted to the panel; answer: how
\* the user answered its dialog; got: the list output it parsed; arg: the
\* instance URL on the subprocess's command line; clip: the text it wrote to
\* the clipboard; auth: the display output it parsed; ran: the version output
\* it parsed; stamp, now, text: the stamp and the clock a row was rendered
\* from and its last-used text
OutIn(op, act, al, cli, notice, post, answer, got) ==
    [op |-> op, act |-> act, alias |-> al, cli |-> cli, notice |-> notice, post |-> post,
     answer |-> answer, got |-> got, arg |-> NoUrl, clip |-> "", auth |-> NoAuth,
     ran |-> NoVersion, stamp |-> 0, now |-> 0, text |-> <<>>]

Out(op, act, al, cli, notice, post) == OutIn(op, act, al, cli, notice, post, "", NoOutput)

\* new Date(): stamps of earlier sessions are 1, the session's clock starts at
\* 2 and has advanced with every message and command handled
Now == started + 1

\* what an earlier session can have left in globalState: no list, an empty
\* list or a fetched list; org "B" opened, org "a" never
Init ==
    /\ orgsCache \in {NoCache, Cached(<<>>), Cached(ClassifyAll(<<rA, rB>>))}
    /\ lastOpened = Stamp(NoTimes, "B", 1)
    /\ started = 0
    /\ currentPanel = FALSE
    /\ handlersReady = FALSE
    /\ view = NoView
    /\ handlers = EmptyBag
    /\ out = Out("none", "init", "", "none", "none", "")

-----------------------------------------------------------------------------
(* organetto.openNewTab *)

\* no panel yet: create it, show the loading state, call
\* fetchAndCacheOrgs(false).  With a cached list the call returns it at once,
\* the table is rendered and the message handler registered; without one the
\* list subprocess is started
OpenNewTab ==
    /\ ~currentPanel
    /\ currentPanel' = TRUE
    /\ IF CacheHit(FALSE)
       THEN /\ view' = Render(orgsCache.list, lastOpened, FALSE, FALSE)
            /\ handlersReady' = TRUE
            /\ out' = Out("openNewTab", "openNewTab", "", "none", "none", "")
            /\ UNCHANGED <<handlers, started>>
       ELSE /\ Room
            /\ view' = Render(<<>>, lastOpened, FALSE, FALSE)
            /\ handlersReady' = FALSE
            /\ handlers' = Start(Handler("openNewTab", "list", "", TRUE, <<>>, lastOpened))
            /\ started' = started + 1
            /\ out' = Out("openNewTab", "openNewTab", "", "list", "none", "")
    /\ UNCHANGED <<orgsCache, lastOpened>>

\* panel.onDidDispose: the user closes the panel
Dispose ==
    /\ currentPanel
    /\ currentPanel' = FALSE
    /\ handlersReady' = FALSE
    /\ view' = NoView
    /\ handlers' = BagOfAll(LAMBDA h : IF h.op = "addOrg" THEN h ELSE [h EXCEPT !.alive = FALSE],
                            handlers)
    /\ out' = Out("none", "dispose", "", "none", "none", "")
    /\ UNCHANGED <<orgsCache, lastOpened, started>>

-----------------------------------------------------------------------------
(* fetchAndCacheOrgs past its cache check: the list subprocess and what      *)
(* each caller does with the outcome                                         *)

\* the message box the caller's catch block shows for an error thrown in it
CatchNotice(op) ==
    CASE op = "refresh" -> "Failed to refresh orgs"
      [] op = "openNewTab" -> "Failed to fetch Salesforce orgs"
      [] op = "openOrg" -> "Failed to open org"
      [] op = "reauthenticate" -> "Failed to reauthenticate org"
      [] OTHER -> "none"

\* the panel the caller writes to can take the write: the handlers of the
\* dispatcher and openNewTab write to the panel they captured, addOrg to
\* currentPanel if it is defined
CanWrite(h) == IF h.op = "addOrg" THEN currentPanel ELSE h.alive

ListStoredMutA(h, o) ==
    /\ h.pc = "list"
    /\ orgsCache' = Cached(Fetched(o))
    /\ lastOpened' = [i \in Ids |-> IF RemoveOrg(Fetched(o), i) = Fetched(o)
                                    THEN 0 ELSE lastOpened[i]]
    /\ handlers' = Continue(h, [h EXCEPT !.pc = "stored", !.orgs = Fetched(o)])
    /\ out' = OutIn(h.op, "listStored", h.alias, "none", "none", "", "", o)
    /\ UNCHANGED <<started, currentPanel, handlersReady, view>>

\* the list subprocess ends with output the code can parse: flatten, classify,
\* store (globalState.update is awaited: the caller resumes in AfterStore)
ListStored(h, o) ==
    /\ h.pc = "list"
    /\ orgsCache' = Cached(Fetched(o))
    /\ handlers' = Continue(h, [h EXCEPT !.pc = "stored", !.orgs = Fetched(o)])
    /\ out' = OutIn(h.op, "listStored", h.alias, "none", "none", "", "", o)
    /\ UNCHANGED <<lastOpened, started, currentPanel, handlersReady, view>>

\* the list subprocess exits non-zero or prints what JSON.parse rejects:
\* fetchAndCacheOrgs rethrows and the caller's catch block runs
ListFailed(h, failure) ==
    /\ h.pc = "list"
    /\ LET wrote == h.op \in {"refresh", "openNewTab"} /\ h.alive
       IN  /\ view' = IF wrote THEN Render(<<>>, lastOpened, FALSE, TRUE) ELSE view
           /\ handlersReady' = IF h.op = "openNewTab" /\ h.alive THEN TRUE ELSE handlersReady
    /\ handlers' = Finish(h)
    /\ out' = Out(h.op, "listFailed", h.alias, "none", CatchNotice(h.op), "")
    /\ UNCHANGED <<orgsCache, lastOpened, started, currentPanel>>

\* the caller resumes with the list fetchAndCacheOrgs returned and renders it;
\* assigning html of a disposed panel throws into the caller's catch block
AfterStore(h) ==
    /\ h.pc = "stored"
    /\ LET times == IF h.op \in {"addOrg", "reauthenticate"} THEN lastOpened ELSE h.times
           wrote == CanWrite(h)
       IN  /\ view' = IF wrote THEN Render(h.orgs, times, FALSE, FALSE) ELSE view
           /\ handlersReady' = IF h.op = "openNewTab" /\ wrote THEN TRUE ELSE handlersReady
           /\ out' = Out(h.op, "rendered", h.alias, "none",
                         IF wrote THEN "none" ELSE CatchNotice(h.op), "")
    /\ handlers' = Finish(h)
    /\ UNCHANGED <<orgsCache, lastOpened, started, currentPanel>>

-----------------------------------------------------------------------------
(* case "refresh" *)

\* show the refreshing state and call fetchAndCacheOrgs(true)
Refresh ==
    /\ currentPanel /\ handlersReady /\ Room
    /\ started' = started + 1
    /\ IF CacheHit(TRUE)
       THEN /\ view' = Render(orgsCache.list, lastOpened, FALSE, FALSE)
            /\ handlers' = handlers
            /\ out' = Out("refresh", "refresh", "", "none", "none", "")
       ELSE /\ view' = Render(<<>>, lastOpened, TRUE, FALSE)
            /\ handlers' = Start(Handler("refresh", "list", "", TRUE, <<>>, lastOpened))
            /\ out' = Out("refresh", "refresh", "", "list", "none", "")
    /\ UNCHANGED <<orgsCache, lastOpened, currentPanel, handlersReady>>

-----------------------------------------------------------------------------
(* case "openOrg" *)

\* start "sf org open"
OpenOrg(al) ==
    /\ currentPanel /\ handlersReady /\ Room
    /\ al \in RowKeys
    /\ handlers' = Start(Handler("openOrg", "open", al, TRUE, <<>>, NoTimes))
    /\ started' = started + 1
    /\ out' = Out("openOrg", "openOrg", al, "open", "none", "")
    /\ UNCHANGED <<orgsCache, lastOpened, currentPanel, handlersReady, view>>

\* "sf org open" succeeds: stamp the map and store it
OpenStamp(h) ==
    /\ h.pc = "open"
    /\ LET times == Stamp(lastOpened, h.alias, Now)
       IN  /\ lastOpened' = times
           /\ handlers' = Continue(h, [h EXCEPT !.pc = "stamped", !.times = times])
    /\ out' = Out("openOrg", "openStamped", h.alias, "none", "none", "")
    /\ UNCHANGED <<orgsCache, started, currentPanel, handlersReady, view>>

OpenFailedMutA(h) ==
    /\ h.pc = "open"
    /\ handlers' = Finish(h)
    /\ handlersReady' = FALSE
    /\ out' = Out("openOrg", "openFailed", h.alias, "none", "Failed to open org", "")
    /\ UNCHANGED <<orgsCache, lastOpened, started, currentPanel, view>>

\* "sf org open" fails: report
OpenFailed(h) ==
    /\ h.pc = "open"
    /\ handlers' = Finish(h)
    /\ out' = Out("openOrg", "openFailed", h.alias, "none", "Failed to open org", "")
    /\ UNCHANGED <<orgsCache, lastOpened, started, currentPanel, handlersReady, view>>

\* fetchAndCacheOrgs(false), then render with the stamped map
OpenRefreshView(h) ==
    /\ h.op = "openOrg" /\ h.pc = "stamped"
    /\ IF CacheHit(FALSE)
       THEN /\ view' = IF h.alive THEN Render(orgsCache.list, h.times, FALSE, FALSE) ELSE view
            /\ handlers' = Finish(h)
            /\ out' = Out("openOrg", "openRefreshView", h.alias, "none",
                          IF h.alive THEN "none" ELSE "Failed to open org", "")
       ELSE /\ view' = view
            /\ handlers' = Continue(h, [h EXCEPT !.pc = "list"])
            /\ out' = Out("openOrg", "openRefreshView", h.alias, "list", "none", "")
    /\ UNCHANGED <<orgsCache, lastOpened, started, currentPanel, handlersReady>>

-----------------------------------------------------------------------------
(* case "logoutOrg" *)

\* what showWarningMessage can resolve to: its one button, or undefined when
\* the modal dialog is dismissed
Answers == {"Logout", "dismissed"}

ConfirmedMutA(answer) == answer # "Cancel"

\* confirmation === "Logout"
Confirmed(answer) == answer = "Logout"

\* the message arrives and the modal dialog is answered (the handler touches
\* no state while the dialog is up).  Confirmed: start "sf org logout";
\* otherwise the handler ends
LogoutOrg(al, answer) ==
    /\ currentPanel /\ handlersReady /\ Room
    /\ al \in RowKeys
    /\ started' = started + 1
    /\ IF Confirmed(answer)
       THEN /\ handlers' = Start(Handler("logoutOrg", "logout", al, TRUE, <<>>, NoTimes))
            /\ out' = OutIn("logoutOrg", "logoutOrg", al, "logout", "none", "", answer, NoOutput)
       ELSE /\ handlers' = handlers
            /\ out' = OutIn("logoutOrg", "logoutOrg", al, "none", "none", "", answer, NoOutput)
    /\ UNCHANGED <<orgsCache, lastOpened, currentPanel, handlersReady, view>>

\* "sf org logout" succeeds: drop the identifier from the map, store the map
LogoutStoreTimes(h) ==
    /\ h.pc = "logout"
    /\ lastOpened' = Unstamp(lastOpened, h.alias)
    /\ handlers' = Continue(h, [h EXCEPT !.pc = "timesStored"])
    /\ out' = Out("logoutOrg", "logoutTimesStored", h.alias, "none", "none", "")
    /\ UNCHANGED <<orgsCache, started, currentPanel, handlersReady, view>>

LogoutFailedMutA(h) ==
    /\ h.pc = "logout"
    /\ lastOpened' = Unstamp(lastOpened, h.alias)
    /\ orgsCache' = Cached(RemoveOrg(CachedOrEmpty, h.alias))
    /\ handlers' = Finish(h)
    /\ out' = Out("logoutOrg", "logoutFailed", h.alias, "none", "Failed to logout of org", "")
    /\ UNCHANGED <<started, currentPanel, handlersReady, view>>

\* "sf org logout" fails: report and touch nothing
LogoutFailed(h) ==
    /\ h.pc = "logout"
    /\ handlers' = Finish(h)
    /\ out' = Out("logoutOrg", "logoutFailed", h.alias, "none", "Failed to logout of org", "")
    /\ UNCHANGED <<orgsCache, lastOpened, started, currentPanel, handlersReady, view>>

\* drop the identifier's records from the cached list and store the list
LogoutStoreOrgs(h) ==
    /\ h.pc = "timesStored"
    /\ orgsCache' = Cached(RemoveOrg(CachedOrEmpty, h.alias))
    /\ handlers' = Continue(h, [h EXCEPT !.pc = "orgsStored"])
    /\ out' = Out("logoutOrg", "logoutOrgsStored", h.alias, "none", "none", "")
    /\ UNCHANGED <<lastOpened, started, currentPanel, handlersReady, view>>

\* post removeOrg to the panel; the webview drops the row (a disposed panel
\* takes no message)
LogoutPost(h) ==
    /\ h.pc = "orgsStored"
    /\ view' = IF h.alive THEN RemoveRow(view, h.alias) ELSE view
    /\ handlers' = Finish(h)
    /\ out' = Out("logoutOrg", "logoutPosted", h.alias, "none", "none", h.alias)
    /\ UNCHANGED <<orgsCache, lastOpened, started, currentPanel, handlersReady>>

-----------------------------------------------------------------------------
(* case "getAuthUrl" *)

\* start "sf org display --verbose --json"
GetAuthUrl(al) ==
    /\ currentPanel /\ handlersReady /\ Room
    /\ al \in RowKeys
    /\ handlers' = Start(Handler("getAuthUrl", "authUrl", al, TRUE, <<>>, NoTimes))
    /\ started' = started + 1
    /\ out' = Out("getAuthUrl", "getAuthUrl", al, "display", "none", "")
    /\ UNCHANGED <<orgsCache, lastOpened, currentPanel, handlersReady, view>>

\* what the display subprocess can print: an auth URL, an empty one, a result
\* without the field, no result
AuthOutputs ==
    { AuthOutput(TRUE, TRUE, "force://t"), AuthOutput(TRUE, TRUE, ""),
      AuthOutput(TRUE, FALSE, ""), NoAuth }

\* result?.result?.sfdxAuthUrl
AuthUrlOf(o) == IF o.hasResult /\ o.hasField THEN o.sfdxAuthUrl ELSE ""

HasAuthUrlMutA(o) == o.hasResult

\* if (authUrl)
HasAuthUrl(o) == AuthUrlOf(o) # ""

\* the display output is parsed: with an auth URL, write it to the clipboard
\* and show it in an input box (the clipboard is touched by nothing else, so
\* the two awaits are taken in one step); without, show the error
AuthUrlParsed(h, o) ==
    /\ h.pc = "authUrl"
    /\ handlers' = Finish(h)
    /\ out' = IF HasAuthUrl(o)
              THEN [Out("getAuthUrl", "authUrlParsed", h.alias, "none", "SFDX Auth URL", "")
                      EXCEPT !.clip = AuthUrlOf(o), !.auth = o]
              ELSE [Out("getAuthUrl", "authUrlParsed", h.alias, "none",
                        "Could not find Auth URL in the response", "")
                      EXCEPT !.auth = o]
    /\ UNCHANGED <<orgsCache, lastOpened, started, currentPanel, handlersReady, view>>

\* the display subprocess fails or prints what JSON.parse rejects: report
AuthUrlFailed(h) ==
    /\ h.pc = "authUrl"
    /\ handlers' = Finish(h)
    /\ out' = Out("getAuthUrl", "authUrlFailed", h.alias, "none", "Failed to get Auth URL", "")
    /\ UNCHANGED <<orgsCache, lastOpened, started, currentPanel, handlersReady, view>>

-----------------------------------------------------------------------------
(* case "setDefaultOrg" *)

\* start "sf config set target-org"
SetDefaultOrg(al) ==
    /\ currentPanel /\ handlersReady /\ Room
    /\ al \in RowKeys
    /\ handlers' = Start(Handler("setDefaultOrg", "config", al, TRUE, <<>>, NoTimes))
    /\ started' = started + 1
    /\ out' = Out("setDefaultOrg", "setDefaultOrg", al, "config", "none", "")
    /\ UNCHANGED <<orgsCache, lastOpened, currentPanel, handlersReady, view>>

\* the subprocess succeeds: the progress notification reports it
SetDefaultDone(h) ==
    /\ h.pc = "config"
    /\ handlers' = Finish(h)
    /\ out' = Out("setDefaultOrg", "setDefaultDone", h.alias, "none", "none", "")
    /\ UNCHANGED <<orgsCache, lastOpened, started, currentPanel, handlersReady, view>>

SetDefaultFailedMutA(h) ==
    /\ h.pc = "config"
    /\ handlers' = Finish(h)
    /\ view' = IF h.alive THEN Render(<<>>, lastOpened, FALSE, TRUE) ELSE view
    /\ out' = Out("setDefaultOrg", "setDefaultFailed", h.alias, "none",
                  "Failed to set default org", "")
    /\ UNCHANGED <<orgsCache, lastOpened, started, currentPanel, handlersReady>>

\* the subprocess fails: report
SetDefaultFailed(h) ==
    /\ h.pc = "config"
    /\ handlers' = Finish(h)
    /\ out' = Out("setDefaultOrg", "setDefaultFailed", h.alias, "none",
                  "Failed to set default org", "")
    /\ UNCHANGED <<orgsCache, lastOpened, started, currentPanel, handlersReady, view>>

-----------------------------------------------------------------------------
(* case "reauthenticate" *)

\* cachedOrgs.find((o) => o?.alias === id || o?.username === id): the matching
\* indices
Matches(list, id) == { i \in 1..Len(list) : list[i].alias = id \/ list[i].username = id }

Min(S) == CHOOSE i \in S : \A j \in S : i <= j

NoUrlForMutA(list, id) == Matches(list, id) = {}

\* !org || !org.instanceUrl
NoUrlFor(list, id) ==
    \/ Matches(list, id) = {}
    \/ list[Min(Matches(list, id))].instanceUrl = NoUrl

\* org.instanceUrl of the record found
UrlFor(list, id) == list[Min(Matches(list, id))].instanceUrl

\* look the record up in the cached list; without a record or without its
\* instance URL report and end, else start "sf org login web" against the URL
Reauthenticate(al) ==
    /\ currentPanel /\ handlersReady /\ Room
    /\ al \in RowKeys
    /\ started' = started + 1
    /\ IF NoUrlFor(CachedOrEmpty, al)
       THEN /\ handlers' = handlers
            /\ out' = Out("reauthenticate", "reauthenticate", al, "none",
                          IF Matches(CachedOrEmpty, al) = {}
                          THEN "Could not find org in cached data"
                          ELSE "Could not find instance URL for org", "")
       ELSE /\ handlers' = Start(Handler("reauthenticate", "reauth", al, TRUE, <<>>, NoTimes))
            /\ out' = [Out("reauthenticate", "reauthenticate", al, "login", "none", "")
                         EXCEPT !.arg = UrlFor(CachedOrEmpty, al)]
    /\ UNCHANGED <<orgsCache, lastOpened, currentPanel, handlersReady, view>>

ReauthLoginFailedMutA(h) ==
    /\ h.pc = "reauth"
    /\ handlers' = Continue(h, [h EXCEPT !.pc = "list"])
    /\ out' = Out("reauthenticate", "reauthLoginFailed", h.alias, "list",
                  "Failed to reauthenticate org", "")
    /\ UNCHANGED <<orgsCache, lastOpened, started, currentPanel, handlersReady, view>>

\* the login subprocess fails: report
ReauthLoginFailed(h) ==
    /\ h.pc = "reauth"
    /\ handlers' = Finish(h)
    /\ out' = Out("reauthenticate", "reauthLoginFailed", h.alias, "none",
                  "Failed to reauthenticate org", "")
    /\ UNCHANGED <<orgsCache, lastOpened, started, currentPanel, handlersReady, view>>

ReauthLoginDoneMutA(h) ==
    /\ h.pc = "reauth"
    /\ view' = IF h.alive THEN Render(CachedOrEmpty, lastOpened, FALSE, FALSE) ELSE view
    /\ handlers' = Finish(h)
    /\ out' = Out("reauthenticate", "reauthLoginDone", h.alias, "none", "none", "")
    /\ UNCHANGED <<orgsCache, lastOpened, started, currentPanel, handlersReady>>

\* the login subprocess succeeds: fetchAndCacheOrgs(true)
ReauthLoginDone(h) ==
    /\ h.pc = "reauth"
    /\ IF CacheHit(TRUE)
       THEN /\ view' = IF h.alive THEN Render(orgsCache.list, lastOpened, FALSE, FALSE) ELSE view
            /\ handlers' = Finish(h)
            /\ out' = Out("reauthenticate", "reauthLoginDone", h.alias, "none", "none", "")
       ELSE /\ view' = view
            /\ handlers' = Continue(h, [h EXCEPT !.pc = "list"])
            /\ out' = Out("reauthenticate", "reauthLoginDone", h.alias, "list", "none", "")
    /\ UNCHANGED <<orgsCache, lastOpened, started, currentPanel, handlersReady>>

-----------------------------------------------------------------------------
(* organetto.addOrg *)

\* the prompts of the wizard: org type, instance type (for "Org"), custom
\* instance URL (for "Custom"), alias
WizardPrompts == {"orgType", "instanceType", "customUrl", "alias"}

AddCancelledMutA(prompt) ==
    /\ Room
    /\ handlers' = IF prompt = "alias"
                   THEN Start(Handler("addOrg", "login", "a", FALSE, <<>>, NoTimes))
                   ELSE handlers
    /\ started' = started + 1
    /\ out' = OutIn("addOrg", "addCancelled", "", "none", "none", "", prompt, NoOutput)
    /\ UNCHANGED <<orgsCache, lastOpened, currentPanel, handlersReady, view>>

\* the wizard is dismissed at one of its prompts (out.answer names it): the
\* command returns
AddCancelled(prompt) ==
    /\ Room
    /\ started' = started + 1
    /\ out' = OutIn("addOrg", "addCancelled", "", "none", "none", "", prompt, NoOutput)
    /\ UNCHANGED <<orgsCache, lastOpened, currentPanel, handlersReady, view, handlers>>

\* the wizard ends with an alias its validation accepts: start the login task
AddLogin(al) ==
    /\ Room
    /\ handlers' = Start(Handler("addOrg", "login", al, FALSE, <<>>, NoTimes))
    /\ started' = started + 1
    /\ out' = Out("addOrg", "addLogin", al, "login", "none", "")
    /\ UNCHANGED <<orgsCache, lastOpened, currentPanel, handlersReady, view>>

\* the login task ends.  onDidEndTask resolves the wait, onDidEndTaskProcess
\* rejects it when the exit code is not 0; the one delivered first decides.
\* Resolved: start "sf org display".  Rejected: the command ends.
LoginEnd(h, exitCode, first) ==
    /\ h.pc = "login"
    /\ IF exitCode # 0 /\ first = "process"
       THEN /\ handlers' = Finish(h)
            /\ out' = Out("addOrg", "addLoginRejected", h.alias, "none", "none", "")
       ELSE /\ handlers' = Continue(h, [h EXCEPT !.pc = "display", !.exit = exitCode])
            /\ out' = Out("addOrg", "addDisplay", h.alias, "display", "none", "")
    /\ UNCHANGED <<orgsCache, lastOpened, started, currentPanel, handlersReady, view>>

\* how fetching the new org's details can fail
DisplayFailures == ExecFailures \cup {"noResult"}

\* "sf org display" prints a result: upsert it at the head of the cached list
\* and store the list
AddUpsert(h, rec) ==
    /\ h.pc = "display"
    /\ LET list == Upsert(CachedOrEmpty, h.alias, NewOrg(rec))
       IN  /\ orgsCache' = Cached(list)
           /\ handlers' = Continue(h, [h EXCEPT !.pc = "upserted", !.orgs = list])
    /\ out' = Out("addOrg", "addUpserted", h.alias, "none", "none", "")
    /\ UNCHANGED <<lastOpened, started, currentPanel, handlersReady, view>>

\* "sf org display" fails or prints no result: report; with a panel open fall
\* back to fetchAndCacheOrgs(true), else end
AddDetailsFailed(h, failure) ==
    /\ h.pc = "display"
    /\ IF currentPanel
       THEN IF CacheHit(TRUE)
            THEN /\ view' = Render(orgsCache.list, lastOpened, FALSE, FALSE)
                 /\ handlers' = Finish(h)
                 /\ out' = Out("addOrg", "addDetailsFailed", h.alias, "none",
                               "failed to fetch org details", "")
            ELSE /\ view' = view
                 /\ handlers' = Continue(h, [h EXCEPT !.pc = "list"])
                 /\ out' = Out("addOrg", "addDetailsFailed", h.alias, "list",
                               "failed to fetch org details", "")
       ELSE /\ view' = view
            /\ handlers' = Finish(h)
            /\ out' = Out("addOrg", "addDetailsFailed", h.alias, "none",
                          "failed to fetch org details", "")
    /\ UNCHANGED <<orgsCache, lastOpened, started, currentPanel, handlersReady>>

\* stamp the alias in the map and store the map
AddStamp(h) ==
    /\ h.pc = "upserted"
    /\ LET times == Stamp(lastOpened, h.alias, Now)
       IN  /\ lastOpened' = times
           /\ handlers' = Continue(h, [h EXCEPT !.pc = "stamped", !.times = times])
    /\ out' = Out("addOrg", "addStamped", h.alias, "none", "none", "")
    /\ UNCHANGED <<orgsCache, started, currentPanel, handlersReady, view>>

\* render into the open panel, if any, and report success
AddRender(h) ==
    /\ h.op = "addOrg" /\ h.pc = "stamped"
    /\ view' = IF currentPanel THEN Render(h.orgs, h.times, FALSE, FALSE) ELSE view
    /\ handlers' = Finish(h)
    /\ out' = Out("addOrg", "addRendered", h.alias, "none", "Successfully authenticated org", "")
    /\ UNCHANGED <<orgsCache, lastOpened, started, currentPanel, handlersReady>>

-----------------------------------------------------------------------------
(* checkSfCliVersion *)

\* the literal the pattern starts with: @salesforce/cli/
Prefix == <<"@","s","a","l","e","s","f","o","r","c","e","/","c","l","i","/">>

IsDigit(c) == c \in {"0", "1", "2", "3", "4", "5", "6", "7", "8", "9"}

DigitVal(c) ==
    CASE c = "0" -> 0 [] c = "1" -> 1 [] c = "2" -> 2 [] c = "3" -> 3 [] c = "4" -> 4
      [] c = "5" -> 5 [] c = "6" -> 6 [] c = "7" -> 7 [] c = "8" -> 8 [] c = "9" -> 9

\* \d+ is greedy: how many digits stand in s from position k on
RunLen(s, k) ==
    CHOOSE n \in 0..(Len(s) - k + 1) :
        /\ \A i \in 0..(n - 1) : IsDigit(s[k + i])
        /\ (k + n > Len(s) \/ ~IsDigit(s[k + n]))

\* /@salesforce\/cli\/(\d+)\.(\d+)\.(\d+)/ matches at position k of s
MatchAt(s, k) ==
    LET p1 == k + Len(Prefix)
        d1 == p1 + RunLen(s, p1)
        d2 == d1 + 1 + RunLen(s, d1 + 1)
    IN  /\ k + Len(Prefix) - 1 <= Len(s)
        /\ \A i \in 1..Len(Prefix) : s[k + i - 1] = Prefix[i]
        /\ RunLen(s, p1) >= 1
        /\ d1 <= Len(s) /\ s[d1] = "."
        /\ RunLen(s, d1 + 1) >= 1
        /\ d2 <= Len(s) /\ s[d2] = "."
        /\ RunLen(s, d2 + 1) >= 1

\* stdout.match(...): the positions at which the pattern matches
MatchesAt(s) == { k \in 1..Len(s) : MatchAt(s, k) }

RECURSIVE ParseInt(_)
\* parseInt(digits, 10)
ParseInt(digits) ==
    IF digits = <<>> THEN 0
    ELSE 10 * ParseInt(SubSeq(digits, 1, Len(digits) - 1)) + DigitVal(digits[Len(digits)])

\* the three groups of the leftmost match, as numbers
VersionMatch(s) ==
    LET k == CHOOSE m \in MatchesAt(s) : \A j \in MatchesAt(s) : m <= j
        p1 == k + Len(Prefix)
        d1 == p1 + RunLen(s, p1)
        d2 == d1 + 1 + RunLen(s, d1 + 1)
        e3 == d2 + RunLen(s, d2 + 1)
    IN  << ParseInt(SubSeq(s, p1, d1 - 1)),
           ParseInt(SubSeq(s, d1 + 1, d2 - 1)),
           ParseInt(SubSeq(s, d2 + 1, e3)) >>

\* the minimum version: 2.105.0
MinMajor == 2
MinMinor == 105
MinPatch == 0

VersionOkMutA(major, minor, patch) == major > MinMajor \/ (major = MinMajor /\ minor > MinMinor)

\* the three tests that return true
VersionOk(major, minor, patch) ==
    \/ major > MinMajor
    \/ (major = MinMajor /\ minor > MinMinor)
    \/ (major = MinMajor /\ minor = MinMinor /\ patch >= MinPatch)

\* what checkSfCliVersion shows for a version output
VersionNotice(s) ==
    IF MatchesAt(s) = {} THEN "none"
    ELSE LET v == VersionMatch(s)
         IN  IF VersionOk(v[1], v[2], v[3]) THEN "none"
             ELSE "ORGanetto requires Salesforce CLI version 2.105.0 or higher"

RECURSIVE Digits(_)
\* a number as it is printed
Digits(n) ==
    IF n < 10 THEN << CHOOSE c \in {"0", "1", "2", "3", "4", "5", "6", "7", "8", "9"} :
                        DigitVal(c) = n >>
    ELSE Append(Digits(n \div 10), CHOOSE c \in {"0", "1", "2", "3", "4", "5", "6", "7", "8", "9"} :
                                      DigitVal(c) = n % 10)

\* "sf --version" prints  @salesforce/cli/<major>.<minor>.<patch> <platform> <node>
\* possibly after a warning line
VersionLine(pre, major, minor, patch, suf) ==
    pre \o Prefix \o Digits(major) \o <<".">> \o Digits(minor) \o <<".">> \o Digits(patch) \o suf

\* outputs with a version, and outputs without: empty, no prefix, two parts,
\* a part that is no number; a version after a broken one; leading zeros
VersionOutputs ==
    { VersionOutput(VersionLine(pre, major, minor, patch, suf), TRUE, <<major, minor, patch>>) :
        pre \in {<<>>, <<"w", " ">>}, major \in {1, 2, 3, 10},
        minor \in {0, 99, 104, 105, 106, 1000}, patch \in {0, 1, 10},
        suf \in {<<>>, <<" ", "d">>, <<"-", "b">>} }
    \cup
    { VersionOutput(<<>>, FALSE, <<>>),
      VersionOutput(Prefix, FALSE, <<>>),
      VersionOutput(<<"2", ".", "1", "0", "4", ".", "0">>, FALSE, <<>>),
      VersionOutput(Prefix \o <<"2", ".", "1", "0", "4">>, FALSE, <<>>),
      VersionOutput(Prefix \o <<"2", ".", "1", "0", "4", ".">>, FALSE, <<>>),
      VersionOutput(Prefix \o <<"2", ".", ".", "0">>, FALSE, <<>>),
      VersionOutput(Prefix \o <<"x", ".", "1", ".", "2">>, FALSE, <<>>),
      VersionOutput(Prefix \o <<"x", " ">> \o Prefix \o <<"2", ".", "1", "0", "4", ".", "0">>,
                    TRUE, <<2, 104, 0>>),
      VersionOutput(Prefix \o <<"0", "2", ".", "0", "1", "0", "5", ".", "0", "0">>,
                    TRUE, <<2, 105, 0>>) }

\* activate has called checkSfCliVersion without awaiting it and registered
\* the commands: "sf --version" is running
InitVersion ==
    /\ orgsCache \in {NoCache, Cached(<<>>), Cached(ClassifyAll(<<rA, rB>>))}
    /\ lastOpened = Stamp(NoTimes, "B", 1)
    /\ started = 0
    /\ currentPanel = FALSE
    /\ handlersReady = FALSE
    /\ view = NoView
    /\ handlers = SetToBag({Handler("checkSfCliVersion", "version", "", FALSE, <<>>, NoTimes)})
    /\ out = Out("checkSfCliVersion", "activate", "", "version", "none", "")

\* "sf --version" succeeds: match, compare, warn if too old
VersionChecked(h, o) ==
    /\ h.pc = "version"
    /\ handlers' = Finish(h)
    /\ out' = [Out("checkSfCliVersion", "versionChecked", "", "none", VersionNotice(o.text), "")
                 EXCEPT !.ran = o]
    /\ UNCHANGED <<orgsCache, lastOpened, started, currentPanel, handlersReady, view>>

\* "sf --version" fails: the error is logged
VersionFailed(h) ==
    /\ h.pc = "version"
    /\ handlers' = Finish(h)
    /\ out' = Out("checkSfCliVersion", "versionFailed", "", "none", "none", "")
    /\ UNCHANGED <<orgsCache, lastOpened, started, currentPanel, handlersReady, view>>

-----------------------------------------------------------------------------
(* getWebviewContent: the last-used text of a row *)

MsPerMin == 60000

MsPerHour == 3600000

MsPerDay == 86400000

LastUsedTextMutA(stamp, now) ==
    IF stamp # 0
    THEN LET diffMs == now - stamp
             diffMins == diffMs \div MsPerMin
             diffHours == diffMs \div MsPerHour
             diffDays == diffMs \div MsPerDay
         IN  IF diffMins < 1 THEN <<"Just now">>
             ELSE IF diffMins <= 60 THEN Digits(diffMins) \o <<" min ago">>
             ELSE IF diffHours < 24 THEN Digits(diffHours) \o <<" hr ago">>
             ELSE IF diffDays < 7
                  THEN Digits(diffDays) \o <<" day">>
                         \o (IF diffDays > 1 THEN <<"s">> ELSE <<>>) \o <<" ago">>
             ELSE <<"date">> \o Digits(stamp \div MsPerDay)
    ELSE <<"Never">>

\* lastUsedText for a stamp and the clock, both in milliseconds; 0 is no
\* stamp; the text is the sequence of the pieces the code concatenates, a
\* number being its digits; toLocaleDateString is the day of the stamp
LastUsedText(stamp, now) ==
    IF stamp # 0
    THEN LET diffMs == now - stamp
             diffMins == diffMs \div MsPerMin
             diffHours == diffMs \div MsPerHour
             diffDays == diffMs \div MsPerDay
         IN  IF diffMins < 1 THEN <<"Just now">>
             ELSE IF diffMins < 60 THEN Digits(diffMins) \o <<" min ago">>
             ELSE IF diffHours < 24 THEN Digits(diffHours) \o <<" hr ago">>
             ELSE IF diffDays < 7
                  THEN Digits(diffDays) \o <<" day">>
                         \o (IF diffDays > 1 THEN <<"s">> ELSE <<>>) \o <<" ago">>
             ELSE <<"date">> \o Digits(stamp \div MsPerDay)
    ELSE <<"Never">>

\* a clock value of an earlier session, in milliseconds
BaseTime == 1000000000

\* ages around every limit of the buckets, and a clock behind the stamp
Ages ==
    { 0 - 1000, 0, 1, 30000, 59999, 60000, 60001, 119999, 120000,
      3599999, 3600000, 3600001, 5400000, 7200000,
      86399999, 86400000, 86400001, 172799999, 172800000,
      604799999, 604800000, 604800001, 864000000 }

\* globalState as earlier sessions left it: the list, and for each org no
\* stamp or one of two stamps
InitLastUsed ==
    /\ orgsCache = Cached(ClassifyAll(<<rA, rB>>))
    /\ lastOpened \in [Ids -> {0, BaseTime, BaseTime + 30000}]
    /\ started = 0
    /\ currentPanel = FALSE
    /\ handlersReady = FALSE
    /\ view = NoView
    /\ handlers = EmptyBag
    /\ out = Out("none", "init", "", "none", "none", "")

\* the map callback of getWebviewContent on the i-th org, the clock reading now
RenderRow(i, now) ==
    /\ i \in 1..Len(orgsCache.list)
    /\ LET orgKey == OrgKey(orgsCache.list[i])
       IN  out' = [Out("render", "rowRendered", orgKey, "none", "none", "")
                     EXCEPT !.stamp = lastOpened[orgKey], !.now = now,
                            !.text = LastUsedText(lastOpened[orgKey], now)]
    /\ UNCHANGED <<orgsCache, lastOpened, started, currentPanel, handlersReady, view, handlers>>

-----------------------------------------------------------------------------
(* The webview's script: sortTable *)

\* the order of < on the strings the attributes hold
CodeUnits(x) ==
    CASE x = "" -> 0 [] x = "Connected" -> 1 [] x = "Expired" -> 2 [] x = "Unknown" -> 3
      [] x = "a" -> 4 [] x = "b" -> 5 [] x = "c" -> 6 [] x = "d" -> 7

CompareMutA(column, ascending, a, b) ==
    IF column = "lastused"
    THEN IF ascending THEN b.lastused - a.lastused ELSE a.lastused - b.lastused
    ELSE LET aVal == IF column = "alias" THEN a.dataAlias ELSE a.dataStatus
             bVal == IF column = "alias" THEN b.dataAlias ELSE b.dataStatus
         IN  IF CodeUnits(aVal) < CodeUnits(bVal) THEN (IF ascending THEN 0 - 1 ELSE 1)
             ELSE IF CodeUnits(aVal) > CodeUnits(bVal) THEN (IF ascending THEN 1 ELSE 0 - 1)
             ELSE 0

\* the comparator handed to rows.sort
Compare(column, ascending, a, b) ==
    IF column = "lastused"
    THEN IF a.lastused = 0 /\ b.lastused = 0 THEN 0
         ELSE IF a.lastused = 0 THEN 1
         ELSE IF b.lastused = 0 THEN 0 - 1
         ELSE IF ascending THEN b.lastused - a.lastused ELSE a.lastused - b.lastused
    ELSE LET aVal == IF column = "alias" THEN a.dataAlias ELSE a.dataStatus
             bVal == IF column = "alias" THEN b.dataAlias ELSE b.dataStatus
         IN  IF CodeUnits(aVal) < CodeUnits(bVal) THEN (IF ascending THEN 0 - 1 ELSE 1)
             ELSE IF CodeUnits(aVal) > CodeUnits(bVal) THEN (IF ascending THEN 1 ELSE 0 - 1)
             ELSE 0

\* r put into a sorted sequence behind every row that does not come after it
InsertRow(sorted, r, column, ascending) ==
    LET k == Cardinality({ i \in 1..Len(sorted) : Compare(column, ascending, sorted[i], r) <= 0 })
    IN  SubSeq(sorted, 1, k) \o <<r>> \o SubSeq(sorted, k + 1, Len(sorted))

RECURSIVE SortRows(_, _, _)
\* Array.prototype.sort, which is stable
SortRows(rows, column, ascending) ==
    IF rows = <<>> THEN <<>>
    ELSE InsertRow(SortRows(SubSeq(rows, 1, Len(rows) - 1), column, ascending),
                   rows[Len(rows)], column, ascending)

Columns == {"alias", "status", "lastused"}

\* a click on a column header: toggle or reset the direction, sort the rows
\* and put them back in the table body
SortTable(column) ==
    /\ currentPanel /\ view.kind = "table"
    /\ LET ascending == IF view.sort.column = column THEN ~view.sort.ascending ELSE TRUE
       IN  view' = [view EXCEPT !.sort = [column |-> column, ascending |-> ascending],
                                !.rows = SortRows(view.rows, column, ascending)]
    /\ out' = Out("webview", "sorted", "", "none", "none", "")
    /\ UNCHANGED <<orgsCache, lastOpened, started, currentPanel, handlersReady, handlers>>

SortIds == {"a", "B", "c", "d"}

\* the latest stamp of the sorted tables
MaxStamp == 3

\* a panel showing four orgs, each never opened or opened at one of the stamps
InitSort ==
    /\ orgsCache = Cached(ClassifyAll(<<Raw("c", "uc", UrlProd, "Expired"), rA,
                                         Raw("d", "ud", NoUrl, "Unknown"), rB>>))
    /\ lastOpened \in [SortIds -> 0..MaxStamp]
    /\ started = 0
    /\ currentPanel = TRUE
    /\ handlersReady = TRUE
    /\ view = Render(orgsCache.list, lastOpened, FALSE, FALSE)
    /\ handlers = EmptyBag
    /\ out = Out("openNewTab", "rendered", "", "none", "none", "")

-----------------------------------------------------------------------------

Next ==
    \/ OpenNewTab
    \/ Dispose
    \/ Refresh
    \/ \E al \in Ids : OpenOrg(al)
    \/ \E al \in Ids, answer \in Answers : LogoutOrg(al, answer)
    \/ \E al \in Ids : GetAuthUrl(al)
    \/ \E al \in Ids : SetDefaultOrg(al)
    \/ \E al \in Ids : Reauthenticate(al)
    \/ \E prompt \in WizardPrompts : AddCancelled(prompt)
    \/ \E al \in Ids : AddLogin(al)
    \/ \E h \in InFlight, o \in ListOutputs : ListStored(h, o)
    \/ \E h \in InFlight, failure \in ExecFailures : ListFailed(h, failure)
    \/ \E h \in InFlight : AfterStore(h)
    \/ \E h \in InFlight : OpenStamp(h)
    \/ \E h \in InFlight : OpenFailed(h)
    \/ \E h \in InFlight : OpenRefreshView(h)
    \/ \E h \in InFlight : LogoutStoreTimes(h)
    \/ \E h \in InFlight : LogoutFailed(h)
    \/ \E h \in InFlight : LogoutStoreOrgs(h)
    \/ \E h \in InFlight : LogoutPost(h)
    \/ \E h \in InFlight, o \in AuthOutputs : AuthUrlParsed(h, o)
    \/ \E h \in InFlight : AuthUrlFailed(h)
    \/ \E h \in InFlight : SetDefaultDone(h)
    \/ \E h \in InFlight : SetDefaultFailed(h)
    \/ \E h \in InFlight : ReauthLoginFailed(h)
    \/ \E h \in InFlight : ReauthLoginDone(h)
    \/ \E h \in InFlight, exitCode \in {0, 1}, first \in {"task", "process"} :
          LoginEnd(h, exitCode, first)
    \/ \E h \in InFlight : \E rec \in DisplayOutputs(h.alias) : AddUpsert(h, rec)
    \/ \E h \in InFlight, failure \in DisplayFailures : AddDetailsFailed(h, failure)
    \/ \E h \in InFlight : AddStamp(h)
    \/ \E h \in InFlight : AddRender(h)

Spec == Init /\ [][Next]_vars

\* activation with the version check running, and the panel command
NextVersion ==
    \/ \E h \in InFlight, o \in VersionOutputs : VersionChecked(h, o)
    \/ \E h \in InFlight : VersionFailed(h)
    \/ OpenNewTab
    \/ Dispose
    \/ \E h \in InFlight, o \in ListOutputs : ListStored(h, o)
    \/ \E h \in InFlight, failure \in ExecFailures : ListFailed(h, failure)
    \/ \E h \in InFlight : AfterStore(h)

SpecVersion == InitVersion /\ [][NextVersion]_vars

\* instance URLs as the CLI can report them: none, production, ".sandbox."
\* inside, first and last, in lower, mixed and upper case, and near misses
InstanceUrls ==
    { NoUrl, UrlProd, UrlSandbox,
      <<"x", ".", "s", "a", "n", "d", "b", "o", "x", ".", "c">>,
      <<".", "s", "a", "n", "d", "b", "o", "x", ".", "c">>,
      <<"x", ".", "s", "a", "n", "d", "b", "o", "x", ".">>,
      <<"x", ".", "S", "A", "N", "D", "B", "O", "X", ".", "c">>,
      <<"x", ".", "s", "a", "n", "d", "b", "o", "x">>,
      <<"s", "a", "n", "d", "b", "o", "x", ".", "c">>,
      <<"x", ".", "s", "a", "n", "d", ".", "b", "o", "x", ".", "c">>,
      <<"s", "a", "n", "d", "b", "o", "x">>,
      <<".">> }

\* list outputs with one org, or two, over these URLs
UrlListOutputs ==
    { ListOutput(TRUE, TRUE, <<Raw("a", "ua", u, "Connected")>>, FALSE, <<>>, FALSE, <<>>) :
        u \in InstanceUrls }
    \cup
    { ListOutput(TRUE, FALSE, <<>>, TRUE, <<rA>>, TRUE, <<Raw("", "B", u, "Expired")>>) :
        u \in InstanceUrls }

\* display outputs over these URLs
UrlDisplayOutputs(al) == { Raw(al, "ub", u, "Unknown") : u \in InstanceUrls }

\* the panel, refresh and addOrg, with the CLI reporting any of the URLs
NextClassify ==
    \/ OpenNewTab
    \/ Dispose
    \/ Refresh
    \/ \E prompt \in WizardPrompts : AddCancelled(prompt)
    \/ \E al \in Ids : AddLogin(al)
    \/ \E h \in InFlight, o \in UrlListOutputs : ListStored(h, o)
    \/ \E h \in InFlight, failure \in ExecFailures : ListFailed(h, failure)
    \/ \E h \in InFlight : AfterStore(h)
    \/ \E h \in InFlight, exitCode \in {0, 1}, first \in {"task", "process"} :
          LoginEnd(h, exitCode, first)
    \/ \E h \in InFlight : \E rec \in UrlDisplayOutputs(h.alias) : AddUpsert(h, rec)
    \/ \E h \in InFlight, failure \in DisplayFailures : AddDetailsFailed(h, failure)
    \/ \E h \in InFlight : AddStamp(h)
    \/ \E h \in InFlight : AddRender(h)

SpecClassify == Init /\ [][NextClassify]_vars

\* rows rendered at any clock reading
NextLastUsed == \E i \in 1..2, d \in Ages : RenderRow(i, BaseTime + d)

SpecLastUsed == InitLastUsed /\ [][NextLastUsed]_vars

\* clicks on the column headers of a rendered table
NextSort == \E column \in Columns : SortTable(column)

SpecSort == InitSort /\ [][NextSort]_vars

\* what a sub-array can hold: nothing, one record, two, the same twice
NonScratchLists == {<<>>, <<rA>>, <<rB, rA>>, <<rA, rA>>}

ScratchLists == {<<>>, <<rA2>>, <<rA>>}

\* list outputs of every shape: an array, an object with both sub-arrays or
\* with one of them, no result
ShapedListOutputs ==
    { ListOutput(TRUE, TRUE, items, FALSE, <<>>, FALSE, <<>>) :
        items \in NonScratchLists \cup {<<rA2, rB>>} }
    \cup
    { ListOutput(TRUE, FALSE, <<>>, TRUE, non, TRUE, scratch) :
        non \in NonScratchLists, scratch \in ScratchLists }
    \cup
    { ListOutput(TRUE, FALSE, <<>>, TRUE, non, FALSE, <<>>) : non \in NonScratchLists }
    \cup
    { ListOutput(TRUE, FALSE, <<>>, FALSE, <<>>, TRUE, scratch) : scratch \in ScratchLists }
    \cup
    { ListOutput(FALSE, FALSE, <<>>, FALSE, <<>>, FALSE, <<>>) }

\* the panel and refresh, with the CLI printing outputs of every shape
NextFlatten ==
    \/ OpenNewTab
    \/ Dispose
    \/ Refresh
    \/ \E h \in InFlight, o \in ShapedListOutputs : ListStored(h, o)
    \/ \E h \in InFlight, failure \in ExecFailures : ListFailed(h, failure)
    \/ \E h \in InFlight : AfterStore(h)

SpecFlatten == Init /\ [][NextFlatten]_vars

-----------------------------------------------------------------------------
(* Messages on their way from the page to the extension host *)

\* the Refresh button in the header of the page, there in every state of the
\* page: vscode.postMessage({ command: 'refresh' }).  The record stands for
\* the message until the host fires the message event of its panel
PostRefresh ==
    /\ currentPanel /\ Room
    /\ \A h \in InFlight : h.pc # "posted"
    /\ handlers' = Start(Handler("refresh", "posted", "", TRUE, <<>>, lastOpened))
    /\ out' = Out("refresh", "posted", "", "none", "none", "")
    /\ UNCHANGED <<orgsCache, lastOpened, started, currentPanel, handlersReady, view>>

\* the host fires the message event of the panel the message came from.  The
\* listener, which openNewTab registers after its awaited fetch and render,
\* runs case "refresh"; an event fired with no listener reaches nobody, and
\* the message of a panel closed meanwhile is discarded
Deliver(m) ==
    /\ m.pc = "posted"
    /\ IF m.alive /\ handlersReady
       THEN /\ started' = started + 1
            /\ IF CacheHit(TRUE)
               THEN /\ view' = Render(orgsCache.list, lastOpened, FALSE, FALSE)
                    /\ handlers' = Finish(m)
                    /\ out' = Out("refresh", "refresh", "", "none", "none", "")
               ELSE /\ view' = Render(<<>>, lastOpened, TRUE, FALSE)
                    /\ handlers' = Continue(m, Handler("refresh", "list", "", TRUE, <<>>,
                                                       lastOpened))
                    /\ out' = Out("refresh", "refresh", "", "list", "none", "")
       ELSE /\ handlers' = Finish(m)
            /\ out' = Out("refresh", IF m.alive THEN "dropped" ELSE "discarded", "",
                          "none", "none", "")
            /\ UNCHANGED <<started, view>>
    /\ UNCHANGED <<orgsCache, lastOpened, currentPanel, handlersReady>>

\* a message in transit is delivered
Delivery == \E m \in InFlight : Deliver(m)

\* the list subprocess of a handler ends, one way or the other
ListEnds ==
    \/ \E h \in InFlight, o \in ListOutputs : ListStored(h, o)
    \/ \E h \in InFlight, failure \in ExecFailures : ListFailed(h, failure)

\* a handler resumes after its awaited store
Resumes == \E h \in InFlight : AfterStore(h)

\* the panel with the page posting refresh messages, each dispatched by the
\* delivery of its message
NextPost ==
    \/ OpenNewTab
    \/ Dispose
    \/ PostRefresh
    \/ Delivery
    \/ ListEnds
    \/ Resumes

\* the host delivers every message, every subprocess ends and every resolved
\* await resumes; the user owes no click
SpecPost ==
    /\ Init
    /\ [][NextPost]_vars
    /\ WF_vars(Delivery)
    /\ WF_vars(ListEnds)
    /\ WF_vars(Resumes)

-----------------------------------------------------------------------------
(* Vocabulary of the properties *)

\* the records of `list` whose identifier (alias, else username) is id
RecordsOf(list, id) == { i \in 1..Len(list) : OrgKey(list[i]) = id }

\* the records of `list` that have another identifier, in their order
OthersOf(list, id) == SelectSeq(list, LAMBDA org : OrgKey(org) # id)

\* the view is what getWebviewContent gives for `list`: a row per record, in
\* order, or the placeholder when the list is empty
ViewShows(v, list) ==
    IF Len(list) = 0
    THEN v.kind = "loading"
    ELSE /\ v.kind = "table"
         /\ Len(v.rows) = Len(list)
         /\ \A i \in 1..Len(list) : v.rows[i].key = OrgKey(list[i])

\* how many list subprocesses are in flight
ListCalls(bag) ==
    BagCardinality([h \in { x \in BagToSet(bag) : x.pc = "list" } |-> bag[h]])

-----------------------------------------------------------------------------
(* C1: a call of fetchAndCacheOrgs(false) (openNewTab's, openOrg's) made while
   a cached list exists, the empty list included, starts no list subprocess,
   leaves both persisted entries as they are and returns the cached list,
   which is what the caller renders. *)
C1_CachedListReturned ==
    [][ (orgsCache.defined /\ out'.act \in {"openNewTab", "openRefreshView"}) =>
          /\ out'.cli = "none"
          /\ ListCalls(handlers') = ListCalls(handlers)
          /\ orgsCache' = orgsCache
          /\ lastOpened' = lastOpened
          /\ out'.act = "openNewTab" => ViewShows(view', orgsCache.list)
          /\ \A h \in InFlight :
                (out'.act = "openRefreshView" /\ h.op = "openOrg" /\ h.pc = "stamped"
                   /\ h.alive /\ handlers' = Finish(h))
                => ViewShows(view', orgsCache.list) ]_vars

\* a second call in the session (openNewTab made the first) has returned the
\* cached list to openOrg, which rendered it
C1_Witness ==
    /\ out.act = "openRefreshView" /\ out.cli = "none" /\ out.notice = "none"
    /\ orgsCache.defined /\ ViewShows(view, orgsCache.list) /\ view.kind = "table"

(* C2: when the list subprocess exits non-zero or prints unparsable output,
   the caller of fetchAndCacheOrgs shows the error to the user and the
   persisted org list is what it was. *)
C2_ListFailurePresented ==
    [][ out'.act = "listFailed" => (out'.notice # "none" /\ orgsCache' = orgsCache) ]_vars

(* C3: refresh starts the list subprocess whether or not a list is cached;
   when the subprocess succeeds the persisted list becomes the list just
   fetched, whatever was cached, and refresh renders that list into its panel
   (if the panel is still open). *)
C3_RefreshForcesFetch ==
    [][ /\ out'.act = "refresh" =>
              /\ out'.cli = "list"
              /\ ListCalls(handlers') = ListCalls(handlers) + 1
              /\ view'.kind = "refreshing"
        /\ out'.act = "listStored" => orgsCache' = Cached(ClassifyAll(Flatten(out'.got)))
        /\ \A h \in InFlight :
              (out'.act = "rendered" /\ h.op = "refresh" /\ h.pc = "stored" /\ h.alive
                 /\ handlers' = Finish(h))
              => ViewShows(view', h.orgs) ]_vars

\* a refresh made with a list cached has stored another list and rendered it
C3_Witness ==
    /\ out.op = "refresh" /\ out.act = "rendered" /\ out.notice = "none"
    /\ view.kind = "table" /\ orgsCache.defined /\ ViewShows(view, orgsCache.list)
    /\ orgsCache.list[1].connectedStatus = "Expired"

\* no entry and no record of the identifier is persisted
Absent(id) == lastOpened[id] = 0 /\ RecordsOf(CachedOrEmpty, id) = {}

\* the view has no row of the identifier
NoRowOf(v, id) == \A i \in 1..Len(v.rows) : v.rows[i].key # id

(* C4: a confirmed logout of X whose CLI call succeeds stores a last-opened
   map without X, then an org list without a record whose identifier (alias,
   else username) is X, then posts removeOrg for X to its panel, whose row of
   X goes; none of these steps starts a list subprocess or renders the page
   anew.  A logout that ran alone in its session leaves X absent from both
   persisted entries. *)
C4_LogoutRemoves ==
    [][ out'.op = "logoutOrg" =>
          /\ out'.cli \in {"none", "logout"}
          /\ ListCalls(handlers') = ListCalls(handlers)
          /\ view' \in {view, RemoveRow(view, out'.alias)}
          /\ out'.act = "logoutTimesStored" => lastOpened'[out'.alias] = 0
          /\ out'.act = "logoutOrgsStored" =>
                orgsCache'.defined /\ RecordsOf(orgsCache'.list, out'.alias) = {}
          /\ out'.act = "logoutPosted" =>
                /\ out'.post = out'.alias
                /\ \A h \in InFlight :
                      (h.op = "logoutOrg" /\ h.pc = "orgsStored" /\ h.alive
                         /\ handlers' = Finish(h))
                      => NoRowOf(view', out'.alias)
                /\ started' = 1 =>
                      /\ lastOpened'[out'.alias] = 0
                      /\ orgsCache'.defined
                      /\ RecordsOf(orgsCache'.list, out'.alias) = {} ]_vars

\* a logout of "B", a record without alias that had an entry in the map, has
\* posted removeOrg to its open panel; the entry of "a", opened meanwhile, stays
C4_Witness ==
    /\ out.act = "logoutPosted" /\ out.alias = "B" /\ out.post = "B"
    /\ currentPanel /\ view.kind = "table" /\ Len(view.rows) = 1
    /\ lastOpened["B"] = 0 /\ lastOpened["a"] > 1
    /\ Len(orgsCache.list) = 1

(* C5: a confirmed logout of an identifier that has no entry in the map and
   no record in the persisted list changes neither persisted entry and shows
   no error. *)
C5_LogoutIdempotent ==
    [][ (out'.op = "logoutOrg" /\ out'.act # "logoutOrg" /\ Absent(out'.alias)) =>
          /\ orgsCache' = orgsCache
          /\ lastOpened' = lastOpened
          /\ out'.notice = "none" ]_vars

(* C6: when the confirmation dialog resolves to anything but "Logout", no
   logout subprocess is started, both persisted entries are what they were
   and no removeOrg message is posted. *)
C6_LogoutNeedsConfirmation ==
    [][ (out'.act = "logoutOrg" /\ out'.answer # "Logout") =>
          /\ out'.cli = "none"
          /\ out'.post = ""
          /\ handlers' = handlers
          /\ orgsCache' = orgsCache
          /\ lastOpened' = lastOpened
          /\ view' = view ]_vars

\* the dialog over a row of the table was dismissed
C6_Witness ==
    /\ out.act = "logoutOrg" /\ out.answer = "dismissed" /\ out.cli = "none"
    /\ out.alias \in RowKeys /\ ~Absent(out.alias)

(* C7 as stated: when the logout CLI call of a confirmed logout fails, the
   identifier's last-opened entry and its record in the persisted list are
   removed all the same. *)
C7_RemovedEvenOnFailure ==
    out.act = "logoutFailed" => Absent(out.alias)

(* C7, amended: a confirmed logout removes the local records only when the
   logout CLI call succeeds.  When the call fails the error is shown, both
   persisted entries and the view are left as they were and no removeOrg is
   posted; an entry leaves the last-opened map only in the step that follows
   a successful logout call. *)
C7_RemovedOnlyOnSuccess ==
    [][ /\ out'.act = "logoutFailed" =>
              /\ out'.notice = "Failed to logout of org"
              /\ out'.post = ""
              /\ orgsCache' = orgsCache
              /\ lastOpened' = lastOpened
              /\ view' = view
        /\ \A id \in Ids :
              (lastOpened[id] # 0 /\ lastOpened'[id] = 0)
              => (out'.act = "logoutTimesStored" /\ out'.alias = id) ]_vars

\* a logout call failed for an identifier with an entry and a record, and
\* both are still there
C7_Witness ==
    /\ out.act = "logoutFailed" /\ out.notice = "Failed to logout of org"
    /\ lastOpened[out.alias] # 0
    /\ RecordsOf(CachedOrEmpty, out.alias) # {}

(* C8: after addOrg for X has fetched the details of X (the record that
   "sf org display" printed has identifier X) and stored the list, the
   persisted list holds exactly one record whose identifier is X, at position
   0, whether or not it held one before, and the other records in their
   former order. *)
C8_UpsertOneRecordFirst ==
    [][ (out'.act = "addUpserted" /\ OrgKey(orgsCache'.list[1]) = out'.alias) =>
          /\ orgsCache'.defined
          /\ RecordsOf(orgsCache'.list, out'.alias) = {1}
          /\ OthersOf(orgsCache'.list, out'.alias) = OthersOf(CachedOrEmpty, out'.alias) ]_vars

\* addOrg for "a" has replaced the record of "a" that the list held and left
\* the record of "B" behind it
C8_Witness ==
    /\ out.act = "addUpserted" /\ out.alias = "a"
    /\ Len(orgsCache.list) = 2
    /\ OrgKey(orgsCache.list[1]) = "a" /\ orgsCache.list[1].username = "ub"
    /\ orgsCache.list[1].connectedStatus = "Connected"
    /\ OrgKey(orgsCache.list[2]) = "B"

(* C9: when the open CLI call for X succeeds, the last-opened map stored has
   X at the time of that step and every other entry as it was, and the page
   then rendered into the handler's panel shows, for every row, the time that
   map holds. *)
C9_OpenStampsAndRenders ==
    [][ /\ out'.act = "openStamped" =>
              /\ lastOpened'[out'.alias] = Now
              /\ \A id \in Ids \ {out'.alias} : lastOpened'[id] = lastOpened[id]
        /\ \A h \in InFlight :
              (h.op = "openOrg" /\ handlers' = Finish(h) /\ h.alive
                 /\ out'.act \in {"openRefreshView", "rendered"} /\ out'.notice = "none")
              => /\ h.times[h.alias] # 0
                 /\ view'.kind \in {"table", "loading"}
                 /\ \A i \in 1..Len(view'.rows) :
                       view'.rows[i].lastused = h.times[view'.rows[i].key] ]_vars

\* an open of "a" in a session whose map had both entries was stamped and the
\* table rendered with the new time of "a" and the old time of "B"
C9_Witness ==
    /\ out.op = "openOrg" /\ out.act = "openRefreshView" /\ out.alias = "a"
    /\ view.kind = "table" /\ Len(view.rows) = 2
    /\ view.rows[1].key = "a" /\ view.rows[1].lastused > 1
    /\ view.rows[2].key = "B" /\ view.rows[2].lastused = 1
    /\ lastOpened["a"] = view.rows[1].lastused /\ lastOpened["B"] = 1

(* C10: when "sf org display" fails after the login (the subprocess fails,
   prints unparsable output or prints no result), addOrg starts a forced list
   fetch. *)
C10_FallbackFetch ==
    out.act = "addDetailsFailed" => out.cli = "list"

-----------------------------------------------------------------------------
(* The dispatcher's other cases *)

\* the steps of a list fetch and of the handlers that force one
ListSteps ==
    {"refresh", "reauthenticate", "reauthLoginDone", "reauthLoginFailed",
     "addDetailsFailed", "listStored", "listFailed", "rendered"}

(* C11: no step of a list fetch, and no step of refresh, of reauthenticate or
   of addOrg's fallback, adds, removes or changes an entry of the last-opened
   map, whether or not the identifier is in the list fetched. *)
C11_ListFetchKeepsTimes ==
    [][ out'.act \in ListSteps => lastOpened' = lastOpened ]_vars

\* a forced fetch has stored a list without a record of "B", and the entry of
\* "B" is still in the map
C11_Witness ==
    /\ out.act = "listStored" /\ out.op \in {"refresh", "reauthenticate", "addOrg"}
    /\ orgsCache.defined /\ RecordsOf(orgsCache.list, "B") = {}
    /\ lastOpened["B"] = 1

\* every cached record of the identifier, if there is one, lacks its instance URL
NoUrlCached(id) ==
    \A i \in RecordsOf(CachedOrEmpty, id) : CachedOrEmpty[i].instanceUrl = NoUrl

(* C12: reauthenticate for an identifier with no cached record, or whose
   cached record has no instance URL, shows an error, starts no subprocess
   and no continuation, and leaves both persisted entries as they were. *)
C12_ReauthNeedsUrl ==
    [][ (out'.act = "reauthenticate" /\ NoUrlCached(out'.alias)) =>
          /\ out'.notice \in {"Could not find org in cached data",
                               "Could not find instance URL for org"}
          /\ out'.cli = "none"
          /\ handlers' = handlers
          /\ orgsCache' = orgsCache
          /\ lastOpened' = lastOpened ]_vars

\* reauthenticate was asked for "a", whose record (fetched with the status
\* Expired) has no instance URL
C12_Witness ==
    /\ out.act = "reauthenticate" /\ out.alias = "a"
    /\ out.notice = "Could not find instance URL for org" /\ out.cli = "none"
    /\ RecordsOf(CachedOrEmpty, "a") # {} /\ NoUrlCached("a")
    /\ handlers = EmptyBag

(* C13: reauthenticate for an identifier whose cached record has an instance
   URL starts the login subprocess against that URL and no list subprocess;
   the handler starts its forced list fetch in the step that follows the
   login's success and in no other; when the login fails the error is shown,
   no list subprocess is started and the persisted list is what it was. *)
C13_ReauthLoginThenFetch ==
    [][ out'.op = "reauthenticate" =>
          /\ (out'.act = "reauthenticate" /\ ~NoUrlCached(out'.alias)) =>
                /\ out'.cli = "login"
                /\ out'.arg # NoUrl
                /\ \E i \in RecordsOf(CachedOrEmpty, out'.alias) :
                      CachedOrEmpty[i].instanceUrl = out'.arg
                /\ ListCalls(handlers') = ListCalls(handlers)
                /\ orgsCache' = orgsCache
          /\ out'.act = "reauthLoginDone" =>
                /\ out'.cli = "list"
                /\ ListCalls(handlers') = ListCalls(handlers) + 1
                /\ orgsCache' = orgsCache
          /\ out'.act # "reauthLoginDone" =>
                /\ out'.cli # "list"
                /\ ListCalls(handlers') <= ListCalls(handlers)
          /\ out'.act = "reauthLoginFailed" =>
                /\ out'.notice = "Failed to reauthenticate org"
                /\ orgsCache' = orgsCache
                /\ ListCalls(handlers') = ListCalls(handlers) ]_vars

\* a reauthenticate of "B" logged in against the sandbox URL of its record,
\* fetched the list and rendered it
C13_Witness ==
    /\ out.op = "reauthenticate" /\ out.act = "rendered" /\ out.alias = "B"
    /\ out.notice = "none" /\ view.kind = "table"
    /\ orgsCache.list[1].connectedStatus = "Expired"

(* C14: setDefaultOrg starts one "config set" subprocess and, when it fails,
   shows an error; whether the subprocess succeeds or fails, no step of the
   handler changes the persisted list, the last-opened map or the rendered
   view, posts to the panel, writes the clipboard or starts another
   subprocess. *)
C14_SetDefaultOrgFrame ==
    [][ out'.op = "setDefaultOrg" =>
          /\ orgsCache' = orgsCache
          /\ lastOpened' = lastOpened
          /\ view' = view
          /\ ListCalls(handlers') = ListCalls(handlers)
          /\ out'.post = "" /\ out'.clip = ""
          /\ out'.cli = IF out'.act = "setDefaultOrg" THEN "config" ELSE "none"
          /\ out'.notice = IF out'.act = "setDefaultFailed"
                           THEN "Failed to set default org" ELSE "none" ]_vars

\* a "config set" subprocess failed while the table was shown
C14_Witness ==
    /\ out.act = "setDefaultFailed" /\ out.notice = "Failed to set default org"
    /\ currentPanel /\ view.kind = "table" /\ out.alias \in RowKeys

\* the display output holds a value in result.sfdxAuthUrl
AuthValue(o) == o.hasResult /\ o.hasField /\ o.sfdxAuthUrl # ""

(* C15: getAuthUrl writes the clipboard and shows the value exactly when the
   display output holds an auth URL; when the output holds none it shows the
   no-value error and writes nothing to the clipboard, and so when the
   subprocess fails, with the failure reported; no step of the handler
   changes a persisted entry. *)
C15_AuthUrlCopiedIffPresent ==
    [][ out'.op = "getAuthUrl" =>
          /\ orgsCache' = orgsCache
          /\ lastOpened' = lastOpened
          /\ (out'.act = "authUrlParsed" /\ AuthValue(out'.auth)) =>
                /\ out'.clip = out'.auth.sfdxAuthUrl
                /\ out'.notice = "SFDX Auth URL"
          /\ (out'.act = "authUrlParsed" /\ ~AuthValue(out'.auth)) =>
                /\ out'.clip = ""
                /\ out'.notice = "Could not find Auth URL in the response"
          /\ out'.act = "authUrlFailed" =>
                /\ out'.clip = ""
                /\ out'.notice = "Failed to get Auth URL"
          /\ out'.act = "getAuthUrl" => (out'.clip = "" /\ out'.cli = "display") ]_vars

\* the display output of "B" held an auth URL, which was copied and shown
C15_Witness ==
    /\ out.act = "authUrlParsed" /\ out.alias = "B"
    /\ out.clip = "force://t" /\ out.notice = "SFDX Auth URL"
    /\ out.auth.sfdxAuthUrl = "force://t"

\* the steps in which the subprocess of open, getAuthUrl, setDefaultOrg or
\* reauthenticate is found to have failed
CliFailures == {"openFailed", "authUrlFailed", "setDefaultFailed", "reauthLoginFailed"}

\* the message box each of them shows
FailureNotice(act) ==
    CASE act = "openFailed" -> "Failed to open org"
      [] act = "authUrlFailed" -> "Failed to get Auth URL"
      [] act = "setDefaultFailed" -> "Failed to set default org"
      [] act = "reauthLoginFailed" -> "Failed to reauthenticate org"

(* C16: when the subprocess of open, getAuthUrl, setDefaultOrg or
   reauthenticate fails, the handler shows its error and ends; the persisted
   list, the last-opened map, the panel, its view and the other handlers are
   what they were, and with the panel open the dispatcher goes on taking
   messages: a refresh and an action on any row shown are handled. *)
C16_CliFailureNotFatal ==
    /\ [][ out'.act \in CliFailures =>
            /\ out'.notice = FailureNotice(out'.act)
            /\ out'.cli = "none"
            /\ orgsCache' = orgsCache
            /\ lastOpened' = lastOpened
            /\ view' = view
            /\ currentPanel' = currentPanel
            /\ handlersReady' = handlersReady
            /\ \E h \in InFlight : handlers' = Finish(h) ]_vars
    /\ [](  (out.act \in CliFailures /\ currentPanel /\ Room) =>
               /\ ENABLED Refresh
               /\ \A al \in RowKeys : ENABLED OpenOrg(al) /\ ENABLED SetDefaultOrg(al) )

\* an open of a row failed, and the dispatcher can take the next message
C16_Witness ==
    /\ out.act = "openFailed" /\ out.notice = "Failed to open org"
    /\ currentPanel /\ Room /\ RowKeys # {}
    /\ ENABLED Refresh

-----------------------------------------------------------------------------
(* checkSfCliVersion, under SpecVersion *)

\* a version is lower than the minimum in (major, minor, patch) order
BelowMin(v) ==
    \/ v[1] < MinMajor
    \/ (v[1] = MinMajor /\ v[2] < MinMinor)
    \/ (v[1] = MinMajor /\ v[2] = MinMinor /\ v[3] < MinPatch)

(* C17: checkSfCliVersion shows the upgrade warning exactly when the output
   of "sf --version" holds a three-part version after "@salesforce/cli/" and
   that version is lower than 2.105.0 in (major, minor, patch) order; when
   the command fails or the output holds no such version it shows nothing.
   The check changes nothing of the extension's state, and while it runs and
   after it ended, however it ended, the panel command is taken. *)
C17_VersionWarning ==
    /\ [][ out'.op = "checkSfCliVersion" =>
            /\ UNCHANGED <<orgsCache, lastOpened, started, currentPanel, handlersReady, view>>
            /\ out'.act = "versionChecked" =>
                  ( out'.notice = "ORGanetto requires Salesforce CLI version 2.105.0 or higher"
                      <=> (out'.ran.hasVersion /\ BelowMin(out'.ran.version)) )
            /\ out'.act = "versionChecked" =>
                  ( out'.notice = "none"
                      <=> ~(out'.ran.hasVersion /\ BelowMin(out'.ran.version)) )
            /\ out'.act = "versionFailed" => out'.notice = "none" ]_vars
    /\ []( (~currentPanel /\ (CacheHit(FALSE) \/ Room)) => ENABLED OpenNewTab )

\* version 2.104.10 was read while the panel, opened meanwhile, was shown,
\* and the warning came up
C17_Witness ==
    /\ out.act = "versionChecked" /\ out.ran.hasVersion
    /\ out.ran.version = <<2, 104, 10>>
    /\ out.notice = "ORGanetto requires Salesforce CLI version 2.105.0 or higher"
    /\ currentPanel /\ view.kind = "table"

-----------------------------------------------------------------------------
(* setProdOrSandbox, under SpecClassify *)

\* the upper-case form of a character of ".sandbox."
UpperOf(c) ==
    CASE c = "s" -> "S" [] c = "a" -> "A" [] c = "n" -> "N" [] c = "d" -> "D"
      [] c = "b" -> "B" [] c = "o" -> "O" [] c = "x" -> "X" [] OTHER -> c

\* url holds ".sandbox." with each letter in either case
HoldsSandboxAnyCase(url) ==
    \E k \in 0..(Len(url) - Len(Needle)) :
        \A j \in 1..Len(Needle) : url[k + j] \in {Needle[j], UpperOf(Needle[j])}

\* url holds ".sandbox." as written
HoldsSandbox(url) ==
    \E k \in 0..(Len(url) - Len(Needle)) : \A j \in 1..Len(Needle) : url[k + j] = Needle[j]

StoreSteps == {"listStored", "addUpserted"}

(* C18, as stated: after a list fetch or an addOrg stored the list, every
   record of it whose instance URL holds ".sandbox." is Sandbox, every record
   with another non-empty URL is Production, and every record without URL is
   Unknown. Violated: the URL is lower-cased before the test, so a URL
   holding ".Sandbox." is Sandbox. *)
C18_ClassifiedAsWritten ==
    out.act \in StoreSteps =>
        \A i \in 1..Len(orgsCache.list) :
            LET r == orgsCache.list[i]
            IN  r.ProdOrSandbox = IF r.instanceUrl = NoUrl THEN "Unknown"
                                  ELSE IF HoldsSandbox(r.instanceUrl) THEN "Sandbox"
                                  ELSE "Production"

(* C18, amended: every record of the stored list is Sandbox when its
   instance URL holds ".sandbox." with the letters in any case, Production
   when it has another non-empty URL, and Unknown when it has no URL or an
   empty one; this holds of the list in every state, so after every list
   fetch and every addOrg. *)
C18_ClassifiedAnyCase ==
    orgsCache.defined =>
        \A i \in 1..Len(orgsCache.list) :
            LET r == orgsCache.list[i]
            IN  r.ProdOrSandbox = IF r.instanceUrl = NoUrl THEN "Unknown"
                                  ELSE IF HoldsSandboxAnyCase(r.instanceUrl) THEN "Sandbox"
                                  ELSE "Production"

\* addOrg has just stored a record whose URL holds ".SANDBOX.", as Sandbox,
\* next to a record a list fetch stored without URL, as Unknown
C18_Witness ==
    /\ out.act = "addUpserted"
    /\ Len(orgsCache.list) = 2
    /\ orgsCache.list[1].instanceUrl = <<"x", ".", "S", "A", "N", "D", "B", "O", "X", ".", "c">>
    /\ orgsCache.list[1].ProdOrSandbox = "Sandbox"
    /\ orgsCache.list[2].instanceUrl = NoUrl
    /\ orgsCache.list[2].ProdOrSandbox = "Unknown"

-----------------------------------------------------------------------------
(* The last-used text, under SpecLastUsed *)

\* the number n followed by a unit
Counted(n, unit) == Digits(n) \o <<unit>>

(* C19: the last-used text of a rendered row depends only on the age
   d = now - stamp: "Just now" for d under one minute; the whole minutes and
   " min ago" for d under 60 minutes; the whole hours and " hr ago" for d
   under 24 hours; the whole days and " day ago" (one day) or " days ago" for
   d under 7 days; the date of the stamp otherwise; "Never" for a row without
   stamp. 30 seconds give "Just now", 90 minutes "1 hr ago", 10 days a date. *)
C19_LastUsedBuckets ==
    out.act = "rowRendered" =>
        LET d == out.now - out.stamp
        IN  /\ out.stamp = 0 => out.text = <<"Never">>
            /\ out.stamp # 0 =>
                  /\ d < 60000 => out.text = <<"Just now">>
                  /\ (60000 <= d /\ d < 60 * 60000) =>
                        out.text = Counted(d \div 60000, " min ago")
                  /\ (60 * 60000 <= d /\ d < 24 * 3600000) =>
                        out.text = Counted(d \div 3600000, " hr ago")
                  /\ (24 * 3600000 <= d /\ d < 2 * 86400000) =>
                        out.text = <<"1", " day", " ago">>
                  /\ (2 * 86400000 <= d /\ d < 7 * 86400000) =>
                        out.text = Digits(d \div 86400000) \o <<" day", "s", " ago">>
                  /\ 7 * 86400000 <= d =>
                        out.text = <<"date">> \o Digits(out.stamp \div 86400000)
                  /\ d = 30 * 1000 => out.text = <<"Just now">>
                  /\ d = 90 * 60000 => out.text = <<"1", " hr ago">>
                  /\ d = 10 * 86400000 => out.text[1] = "date"

\* a row stamped 90 minutes before was rendered "1 hr ago"
C19_Witness ==
    /\ out.act = "rowRendered"
    /\ out.stamp = BaseTime
    /\ out.now - out.stamp = 5400000
    /\ out.text = <<"1", " hr ago">>

-----------------------------------------------------------------------------
(* sortTable, under SpecSort *)

\* the rows that were opened, in the order shown
Stamped(rows) == SelectSeq(rows, LAMBDA r : r.lastused # 0)

Reverse(s) == [i \in 1..Len(s) |-> s[Len(s) + 1 - i]]

\* no row that was never opened stands before one that was
NeverLast(rows) ==
    \A i, j \in 1..Len(rows) : (i < j /\ rows[i].lastused = 0) => rows[j].lastused = 0

RecentFirst(rows) ==
    \A i, j \in 1..Len(rows) : i < j => rows[i].lastused >= rows[j].lastused

OldestFirst(rows) ==
    \A i, j \in 1..Len(rows) : i < j => rows[i].lastused <= rows[j].lastused

DistinctStamps(rows) ==
    \A i, j \in 1..Len(rows) : i # j => rows[i].lastused # rows[j].lastused

SameRows(r1, r2) ==
    /\ Len(r1) = Len(r2)
    /\ \A r \in { r1[i] : i \in 1..Len(r1) } :
          Cardinality({ i \in 1..Len(r1) : r1[i] = r }) =
          Cardinality({ i \in 1..Len(r2) : r2[i] = r })

(* C20: a click on the last-used header keeps the rows and leaves every row
   that was never opened behind every row that was, whichever the direction.
   A first click (the table was not sorted by last-used) shows the opened
   rows most recent first; a second click shows them oldest first, which,
   their stamps being distinct, is the order of the first click reversed. *)
C20_SortByLastUsed ==
    [][ (out'.act = "sorted" /\ view'.sort.column = "lastused") =>
          /\ SameRows(view.rows, view'.rows)
          /\ NeverLast(view'.rows)
          /\ view.sort.column # "lastused" =>
                (view'.sort.ascending /\ RecentFirst(Stamped(view'.rows)))
          /\ (view.sort.column = "lastused" /\ view.sort.ascending) =>
                /\ ~view'.sort.ascending
                /\ OldestFirst(Stamped(view'.rows))
                /\ DistinctStamps(Stamped(view.rows)) =>
                      Stamped(view'.rows) = Reverse(Stamped(view.rows)) ]_vars

\* after the second click: three opened rows oldest first, then the row never
\* opened, which the table showed first before it was sorted
C20_Witness ==
    /\ out.act = "sorted"
    /\ view.sort = [column |-> "lastused", ascending |-> FALSE]
    /\ lastOpened["c"] = 0
    /\ Len(Stamped(view.rows)) = 3 /\ DistinctStamps(Stamped(view.rows))
    /\ view.rows[1].lastused < view.rows[2].lastused
    /\ view.rows[2].lastused < view.rows[3].lastused
    /\ view.rows[4].lastused = 0

-----------------------------------------------------------------------------
(* fetchAndCacheOrgs: the list it stores, under SpecFlatten *)

\* the records of a stored list as the CLI printed them
AsPrinted(list) ==
    [i \in 1..Len(list) |->
        Raw(list[i].alias, list[i].username, list[i].instanceUrl, list[i].connectedStatus)]

(* C21: the list a fetch has stored holds the records of the command's
   result as printed, each with its classification added: those of the array,
   in its order, when the result is an array; those of the non-scratch
   sub-array followed by those of the scratch sub-array when the result is an
   object with both, as many records as the two sub-arrays hold together. *)
C21_FlattenedInOrder ==
    (out.act = "listStored" /\ out.got.hasResult) =>
        /\ orgsCache.defined
        /\ out.got.isArray => AsPrinted(orgsCache.list) = out.got.items
        /\ (~out.got.isArray /\ out.got.hasNonScratch /\ out.got.hasScratch) =>
              /\ Len(orgsCache.list) = Len(out.got.nonScratchOrgs) + Len(out.got.scratchOrgs)
              /\ \A i \in 1..Len(out.got.nonScratchOrgs) :
                    AsPrinted(orgsCache.list)[i] = out.got.nonScratchOrgs[i]
              /\ \A i \in 1..Len(out.got.scratchOrgs) :
                    AsPrinted(orgsCache.list)[Len(out.got.nonScratchOrgs) + i]
                      = out.got.scratchOrgs[i]

\* a refresh stored the list of an object with two non-scratch records and
\* one scratch record: three records, the scratch one last
C21_Witness ==
    /\ out.act = "listStored" /\ out.op = "refresh"
    /\ ~out.got.isArray
    /\ out.got.nonScratchOrgs = <<rB, rA>> /\ out.got.scratchOrgs = <<rA2>>
    /\ AsPrinted(orgsCache.list) = <<rB, rA, rA2>>

-----------------------------------------------------------------------------
(* Subprocesses per event *)

DispatchedOps ==
    {"refresh", "openOrg", "logoutOrg", "getAuthUrl", "setDefaultOrg", "reauthenticate", "addOrg"}

\* the steps that take an event up
EventSteps ==
    {"refresh", "openOrg", "logoutOrg", "getAuthUrl", "setDefaultOrg", "reauthenticate",
     "addCancelled", "addLogin"}

(* C22, as stated: the handler of every dispatched event has started exactly
   one subprocess when it ends. Violated: reauthenticate ends after the login
   and the list subprocess. *)
C22_ExactlyOneCall ==
    [][ \A h \in InFlight :
          (handlers' = Finish(h) /\ h.op \in DispatchedOps) => h.calls = 1 ]_vars

(* C22, amended: when the handler of a dispatched event ends it has started
   one subprocess if the event is refresh, open, getAuthUrl, setDefaultOrg or
   a confirmed logout; a reauthenticate has started one when its login failed
   and two, login then list, otherwise; an addOrg has started one when its
   login task was rejected, two, login then display, when it ends after the
   display, and three when it ends after the list fetch that follows a failed
   display. An event that ends in the step that takes it up, a declined
   logout, a reauthenticate without record or URL, a cancelled wizard, starts
   none. No step starts more than one. *)
C22_CallsPerEvent ==
    [][ /\ \A h \in InFlight :
             (handlers' = Finish(h) /\ h.op \in DispatchedOps) =>
                 h.calls = CASE h.op = "reauthenticate" ->
                                  IF out'.act = "reauthLoginFailed" THEN 1 ELSE 2
                             [] h.op = "addOrg" ->
                                  IF out'.act = "addLoginRejected" THEN 1
                                  ELSE IF out'.act \in {"addRendered", "addDetailsFailed"} THEN 2
                                  ELSE 3
                             [] OTHER -> 1
        /\ (out'.act \in EventSteps /\ handlers' = handlers) =>
              /\ out'.cli = "none"
              /\ \/ out'.act = "addCancelled"
                 \/ (out'.act = "logoutOrg" /\ out'.answer # "Logout")
                 \/ (out'.act = "reauthenticate" /\ out'.notice # "none")
        /\ (out'.act \in EventSteps /\ handlers' # handlers) =>
              /\ out'.cli # "none"
              /\ \E h \in BagToSet(handlers') :
                    /\ h.calls = 1 /\ h.op = out'.op
                    /\ handlers' = handlers (+) SetToBag({h})
        /\ \A h \in InFlight, h2 \in BagToSet(handlers') :
              (h2.op = h.op /\ h2.alias = h.alias /\ h2.calls # h.calls
                 /\ handlers' (-) SetToBag({h2}) = handlers (-) SetToBag({h})) =>
                    (h2.calls = h.calls + 1 /\ out'.cli # "none") ]_vars

\* a reauthenticate has ended by rendering the list it fetched after its login
C22_Witness ==
    /\ out.op = "reauthenticate" /\ out.act = "rendered"
    /\ out.notice = "none"
    /\ handlers = EmptyBag
    /\ currentPanel /\ view.kind = "table"

-----------------------------------------------------------------------------
(* Handlers side by side *)

\* the events only the panel's buttons send
PanelOps == {"refresh", "openOrg", "logoutOrg", "getAuthUrl", "setDefaultOrg", "reauthenticate"}

\* how many handlers of panel events await a subprocess
CallsInFlight ==
    BagCardinality([h \in { x \in BagToSet(handlers) : x.op \in PanelOps /\ x.pc \in CliPcs }
                      |-> handlers[h]])

(* C23: at no point do two handlers of panel events await a subprocess.
   Violated: the listener is called for a second message while the handler
   of the first is suspended at its subprocess. *)
C23_OneCallAtATime ==
    CallsInFlight <= 1

StampSteps == {"openStamped", "addStamped"}

(* C24: the last-opened map loses no update, whatever the interleaving of
   the handlers. The step that follows a successful open or login of X
   leaves X with a stamp; the step that follows a successful logout of X
   leaves X without entry; and no step of any handler changes the entry of an
   identifier other than the one it stamps or deletes. So once all handlers
   have ended, every identifier holds what the last successful open, addOrg
   or logout on it left. *)
C24_NoLostUpdate ==
    [][ \A i \in Ids :
          /\ (out'.act \in StampSteps /\ out'.alias = i) => lastOpened'[i] = Now
          /\ (out'.act = "logoutTimesStored" /\ out'.alias = i) => lastOpened'[i] = 0
          /\ ~(out'.act \in StampSteps \cup {"logoutTimesStored"} /\ out'.alias = i) =>
                lastOpened'[i] = lastOpened[i] ]_vars

\* an open of "a" and a logout of "B" ran side by side: "a" was stamped when
\* both had started, the logout ended last, and the map holds the stamp of
\* "a" and no entry for "B"
C24_Witness ==
    /\ handlers = EmptyBag /\ started = 2
    /\ out.act = "logoutPosted" /\ out.alias = "B"
    /\ lastOpened["a"] = 3
    /\ lastOpened["B"] = 0

\* how many copies of h the bag holds
CopiesOf(h, bag) == IF h \in BagToSet(bag) THEN bag[h] ELSE 0

(* C25: a list fetch of a refresh does not write back what a logout removed
   while the fetch was running. Let a refresh await its list subprocess, and
   let X have had a stamp when the refresh began and have none now, and be
   absent from the persisted list: a logout of X succeeded after the refresh
   began. Then the list the refresh stores holds no record of X. Violated:
   the refresh stores whatever the subprocess printed. *)
C25_FetchKeepsLaterChange ==
    [][ \A h \in InFlight, x \in Ids :
          ( /\ h.op = "refresh" /\ h.pc = "list"
            /\ out'.act = "listStored" /\ out'.op = "refresh"
            /\ CopiesOf(h, handlers') < CopiesOf(h, handlers)
            /\ h.times[x] # 0 /\ lastOpened[x] = 0
            /\ orgsCache.defined /\ RecordsOf(orgsCache.list, x) = {} )
          => RecordsOf(orgsCache'.list, x) = {} ]_vars

-----------------------------------------------------------------------------
(* organetto.addOrg: a failed login, a dismissed wizard *)

(* C26: an addOrg whose login task ended with an exit code other than 0
   never gets to upsert a record or to stamp its alias, whichever of the two
   task events came first. Violated: when the task-end event comes first
   the wait is resolved, and the display, the upsert and the stamp follow. *)
C26_FailedLoginStoresNothing ==
    \A h \in InFlight :
        (h.op = "addOrg" /\ h.exit # 0) => h.pc \notin {"upserted", "stamped"}

(* C27: when the wizard of addOrg is dismissed at any of its prompts the
   command ends there: no login task and no subprocess is started, no handler
   stays in flight, and the persisted list, the last-opened map, the panel
   and the view are what they were. *)
C27_CancelledWizard ==
    [][ out'.act = "addCancelled" =>
          /\ out'.answer \in WizardPrompts
          /\ out'.cli = "none" /\ out'.notice = "none"
          /\ handlers' = handlers
          /\ UNCHANGED <<orgsCache, lastOpened, currentPanel, handlersReady, view>> ]_vars

\* the wizard was dismissed at the custom URL prompt while the panel showed
\* the table and a refresh was running
C27_Witness ==
    /\ out.act = "addCancelled" /\ out.answer = "customUrl"
    /\ currentPanel /\ view.kind = "refreshing"
    /\ \E h \in InFlight : h.op = "refresh" /\ h.pc = "list"
    /\ \A h \in InFlight : h.op # "addOrg"


-----------------------------------------------------------------------------
(* A write to the panel after the panel was closed *)

\* the steps in which a handler assigns panel.webview.html or posts a message
\* to the panel
WriteSteps == {"rendered", "logoutPosted"}

\* C28: no handler writes to a panel that has been disposed: a handler of the
\* dispatcher or of openNewTab that takes the step assigning the panel's html
\* or posting to it holds a panel that is still open, also when the panel
\* was closed while the handler's subprocess was running
C28_NoWriteAfterDispose ==
    [][\A h \in InFlight :
          (/\ h.op # "addOrg"
           /\ CopiesOf(h, handlers') < CopiesOf(h, handlers)
           /\ out'.op = h.op
           /\ out'.act \in WriteSteps) => h.alive]_vars

-----------------------------------------------------------------------------
(* The view after a fetch that found no org *)

\* some refresh is between its "Refreshing orgs..." render and its final one
RefreshInProgress == \E h \in InFlight : h.op = "refresh"

\* C29: after a list fetch has completed successfully and its caller rendered
\* the result to the open panel, with no refresh in progress, the view is
\* the org table and not the "Loading orgs..." placeholder, also when the
\* fetch returned zero orgs
C29_TableAfterFetch ==
    (/\ out.act = "rendered"
     /\ out.notice = "none"
     /\ out.op \in {"openNewTab", "refresh"}
     /\ currentPanel
     /\ ~RefreshInProgress) => view.kind = "table"

-----------------------------------------------------------------------------
(* A message posted before the listener is registered *)

\* C30: every refresh message the page posts while its panel is open is
\* eventually dispatched to case "refresh", the message posted while the
\* initial list fetch of openNewTab is running included; only the message of
\* a panel closed before the delivery is let off
C30_PostedIsDispatched ==
    (out.act = "posted") ~> (out.act \in {"refresh", "discarded"})

====
